---- MODULE Spec2Model ----
(***************************************************************************)
(* A model of the Roblox account manager: the account registry             *)
(* (RobloxAccountManager), the credential record (Account), the persisted  *)
(* snapshot (fileStorage) and the launch handshake (RobloxAPIService).     *)
(*                                                                         *)
(* JavaScript runs one task at a time: a handler runs without interruption *)
(* from its start, or from the completion of the I/O it awaited, up to its *)
(* next await of real I/O (a file write, a fetch).  Each such stretch is   *)
(* one action of the model.                                                *)
(***************************************************************************)
EXTENDS Integers, Sequences, FiniteSets, TLC

\* ------------------------------------------------------------------ bounds

MaxOps == 2          \* operations started after initialize
Procs == {1, 2}      \* launch requests that can be in flight together

\* ------------------------------------------------------------- JS values

\* A place id is a JavaScript string (control surface) or number (command
\* line, which passes parseInt(placeId)).  A string is the sequence of its
\* characters; a number is held as the characters of its decimal form.
Str(cs) == [t |-> "str", v |-> cs]
Num(cs) == [t |-> "num", v |-> cs]
Null == [t |-> "null", v |-> <<>>]

Digits == {"0", "1", "2", "3", "4", "5", "6", "7", "8", "9"}

DigitVal(c) ==
  CASE c = "0" -> 0 [] c = "1" -> 1 [] c = "2" -> 2 [] c = "3" -> 3
    [] c = "4" -> 4 [] c = "5" -> 5 [] c = "6" -> 6 [] c = "7" -> 7
    [] c = "8" -> 8 [] c = "9" -> 9

NaN == [nan |-> TRUE, n |-> 0]
Number(n) == [nan |-> FALSE, n |-> n]

\* The length of the longest prefix of cs made of decimal digits.
RECURSIVE DigitPrefixLen(_)
DigitPrefixLen(cs) ==
  IF cs = <<>> \/ Head(cs) \notin Digits THEN 0
  ELSE 1 + DigitPrefixLen(Tail(cs))

\* The value of a sequence of decimal digits.
RECURSIVE DigitsValue(_, _)
DigitsValue(cs, acc) ==
  IF cs = <<>> THEN acc
  ELSE DigitsValue(Tail(cs), 10 * acc + DigitVal(Head(cs)))

\* parseInt(x): x converted to a string, an optional sign, then the longest
\* prefix of digits; NaN when there is no digit.
ParseIntChars(cs) ==
  LET neg == cs # <<>> /\ Head(cs) = "-"
      body == IF neg THEN Tail(cs) ELSE cs
      k == DigitPrefixLen(body)
      val == DigitsValue(SubSeq(body, 1, k), 0)
  IN IF k = 0 THEN NaN ELSE Number(IF neg THEN 0 - val ELSE val)

ParseInt(x) == IF x.t = "null" THEN NaN ELSE ParseIntChars(x.v)

\* ToNumber of a string (what == applies to the string operand): the whole
\* string must be a numeric literal; the empty string is 0.
ToNumberChars(cs) ==
  LET neg == cs # <<>> /\ Head(cs) = "-"
      body == IF neg THEN Tail(cs) ELSE cs
      k == DigitPrefixLen(body)
      val == DigitsValue(body, 0)
  IN IF cs = <<>> THEN Number(0)
     ELSE IF k = 0 \/ k # Len(body) THEN NaN
     ELSE Number(IF neg THEN 0 - val ELSE val)

\* x == y (loose equality) on strings and numbers.
LooseEq(x, y) ==
  IF x.t = "null" \/ y.t = "null" THEN x.t = y.t
  ELSE IF x.t = y.t THEN x.v = y.v
  ELSE LET a == ToNumberChars(x.v)
           b == ToNumberChars(y.v)
       IN ~a.nan /\ ~b.nan /\ a.n = b.n

\* Truthiness of a place id value: null, "" and 0 are falsy.
TruthyVal(x) ==
  /\ x.t # "null"
  /\ x.v # <<>>
  /\ ~(x.t = "num" /\ x.v = <<"0">>)

\* ------------------------------------------------------- Credential Record

Undefined == "<undefined>"     \* a property that was never assigned
NoTime == 0                    \* lastUsed: null
NoTracker == <<>>              \* browserTrackerId: null

\* Truthiness of a string field: undefined and "" are falsy.
TruthyStr(s) == s # Undefined /\ s # ""

\* Account.constructor: each field of accountData, or its default; alias,
\* description and group are not read from accountData.
Account(accountData, clock) ==
  [username |-> IF TruthyStr(accountData.username) THEN accountData.username ELSE "Unknown",
   userId |-> IF TruthyStr(accountData.userId) THEN accountData.userId ELSE "",
   securityToken |->
     IF TruthyStr(accountData.securityToken) THEN accountData.securityToken ELSE "",
   password |-> IF TruthyStr(accountData.password) THEN accountData.password ELSE "",
   addedAt |-> IF accountData.addedAt # NoTime THEN accountData.addedAt ELSE clock,
   lastUsed |-> accountData.lastUsed,
   browserTrackerId |-> accountData.browserTrackerId,
   alias |-> Undefined,
   description |-> Undefined,
   group |-> Undefined]

\* Account.toJSON: the ten fields written to the snapshot.  JSON.stringify
\* drops the undefined ones, which read back as undefined.
toJSON(account) ==
  [username |-> account.username,
   userId |-> account.userId,
   securityToken |-> account.securityToken,
   password |-> account.password,
   addedAt |-> account.addedAt,
   lastUsed |-> account.lastUsed,
   browserTrackerId |-> account.browserTrackerId,
   alias |-> account.alias,
   description |-> account.description,
   group |-> account.group]

\* The argument addAccount passes to the constructor.
NewAccountData(username, userId, securityToken, password, addedAt) ==
  [username |-> username, userId |-> userId, securityToken |-> securityToken,
   password |-> password, addedAt |-> addedAt, lastUsed |-> NoTime,
   browserTrackerId |-> NoTracker, alias |-> Undefined,
   description |-> Undefined, group |-> Undefined]

\* Math.random() is r = k / RandomSteps for k in 0 .. RandomSteps - 1.
RandomSteps == 2
RandomDraws == 0 .. (RandomSteps - 1)

\* Number.prototype.toString of a non-negative integer: the characters of
\* its decimal form.
DigitChars == << "0", "1", "2", "3", "4", "5", "6", "7", "8", "9" >>
RECURSIVE ToDigits(_)
ToDigits(n) ==
  IF n < 10 THEN << DigitChars[n + 1] >>
  ELSE ToDigits(n \div 10) \o << DigitChars[(n % 10) + 1] >>

\* A tracker id whose halves are the scaled draws alone.
TrackerIdNoOffset(k, n) ==
  ToDigits((k * 75000) \div n) \o ToDigits((k * 800000) \div n)

\* Math.floor(100000 + r * 75000).toString() +
\* Math.floor(100000 + r * 800000).toString(), for the draw r = k / n.
TrackerId(k, n) ==
  ToDigits(100000 + ((k * 75000) \div n)) \o ToDigits(100000 + ((k * 800000) \div n))

\* Account.generateBrowserTrackerId with the draw k / RandomSteps.
generateBrowserTrackerId(k) == TrackerId(k, RandomSteps)

\* ------------------------------------------------------------------ state

\* The own keys of this.accounts are account names; the object also answers
\* for the names it inherits from Object.prototype, with a value that is
\* truthy and is no Account.
ProtoKeys == {"constructor"}
ProtoRef == 0      \* the inherited value, as a heap reference
NoRef == -1        \* undefined

VARIABLES
  phase,            \* "constructed" | "ready"
  accounts,         \* this.accounts: own key -> reference to an Account
  objs,             \* the heap: reference -> the object's fields
  nextServers,      \* this.nextServers: key -> {placeId, jobId, setAt}
  lastUsedPlaceId,  \* this.lastUsedPlaceId
  disk,             \* the accounts file
  pending,          \* writes of the accounts file in flight
  proc,             \* launch requests: their position and locals
  hist              \* history: operations and launches started, the next
                    \* random id, a serial number for each next server set,
                    \* the last call observed with the value it returned,
                    \* (keys) the own keys of this.accounts in the order
                    \* in which the properties were created, (failed)
                    \* whether a write of the accounts file has failed,
                    \* and (apiPassword) the password the control surface
                    \* was started with, "" for none

vars == << phase, accounts, objs, nextServers, lastUsedPlaceId, disk, pending,
           proc, hist >>

\* this.accounts[accountName]
GetAccount(accts, accountName) ==
  IF accountName \in DOMAIN accts THEN accts[accountName]
  ELSE IF accountName \in ProtoKeys THEN ProtoRef
  ELSE NoRef

Truthy(ref) == ref # NoRef

\* What the Object constructor function holds of an account's fields: none.
ProtoObject ==
  [username |-> Undefined, userId |-> Undefined, securityToken |-> Undefined,
   password |-> Undefined, addedAt |-> NoTime, lastUsed |-> NoTime,
   browserTrackerId |-> NoTracker, alias |-> Undefined,
   description |-> Undefined, group |-> Undefined]

\* ---------------------------------------------------------------- storage

EmptyMap == [k \in {} |-> 0]

\* f without the key k
Without(f, k) == [x \in (DOMAIN f) \ {k} |-> f[x]]

NoFile ==
  [fmt |-> "none", accounts |-> EmptyMap, lastUsedPlaceId |-> Null,
   nextServers |-> EmptyMap]

\* saveAccounts: the object handed to saveAccountsToFile, built from the
\* registry when the save is called.
dataToSave(accts, heap, lastPlace, servers) ==
  [fmt |-> "wrapped",
   accounts |-> [k \in DOMAIN accts |-> toJSON(heap[accts[k]])],
   lastUsedPlaceId |-> lastPlace,
   nextServers |-> servers]

\* The registry and its surroundings as one value, for the operators below.
Cur ==
  [accounts |-> accounts, objs |-> objs, nextServers |-> nextServers,
   lastUsedPlaceId |-> lastUsedPlaceId, pending |-> pending, hist |-> hist]

\* The least write id not in flight.
FreshWrite(pend) ==
  CHOOSE i \in 1 .. (Cardinality(pend) + 1) : \A w \in pend : w.id # i

\* saveAccounts, up to its await of saveAccountsToFile: the snapshot is built
\* and its write is in flight.
saveAccounts(s) ==
  [s EXCEPT !.pending = @ \cup
     {[id |-> FreshWrite(s.pending), awaited |-> TRUE,
       data |-> dataToSave(s.accounts, s.objs, s.lastUsedPlaceId, s.nextServers)]}]

\* this.saveAccounts() with no await: the write is in flight and the caller
\* goes on (to its return) without waiting for its end.
saveAccountsNoAwait(s) ==
  [saveAccounts(s) EXCEPT !.pending =
     {IF w \in s.pending THEN w ELSE [w EXCEPT !.awaited = FALSE] : w \in @}]

\* A save that lets the failure of its write out to its caller.
saveAccountsRethrows(ok) == ~ok

\* Whether `await this.saveAccounts()` throws when the write ended with `ok`:
\* saveAccountsToFile catches the error of a failed write and returns false,
\* saveAccounts ignores that value and catches whatever else is thrown.
saveAccountsThrows(ok) == FALSE

\* saveAccountsToFile: the file after the write ended; a failed mkdir or
\* writeFile is caught and leaves the file as it was.
saveAccountsToFile(file, data, ok) == IF ok THEN data ELSE file

\* A load that hands on whatever the file holds.
loadAccountsFromFileUnchecked(file) == file

\* loadAccountsFromFile: the parsed file, or null (NoFile) when it is missing
\* or unreadable.
loadAccountsFromFile(file) == IF file.fmt \in {"wrapped", "legacy"} THEN file ELSE NoFile

\* The fixed order in which the keys of a loaded file get their references.
RECURSIVE RefsFor(_, _)
RefsFor(keys, next) ==
  IF keys = {} THEN EmptyMap
  ELSE LET k == CHOOSE x \in keys : TRUE
       IN (k :> next) @@ RefsFor(keys \ {k}, next + 1)

\* The keys of a loaded file in the order in which they got their references.
KeysByRef(refs) ==
  [i \in 1 .. Cardinality(DOMAIN refs) |-> CHOOSE k \in DOMAIN refs : refs[k] = i]

\* A load that knows the format with the `accounts` key only.
initializeWrappedOnly(data, clock) ==
  IF data.fmt = "wrapped"
  THEN [accounts |-> RefsFor(DOMAIN data.accounts, 1),
        keys |-> KeysByRef(RefsFor(DOMAIN data.accounts, 1)),
        objs |-> (ProtoRef :> ProtoObject) @@
                 [o \in 1 .. Cardinality(DOMAIN data.accounts) |->
                    Account(data.accounts[CHOOSE k \in DOMAIN data.accounts :
                                            RefsFor(DOMAIN data.accounts, 1)[k] = o], clock)],
        lastUsedPlaceId |->
          IF TruthyVal(data.lastUsedPlaceId) THEN data.lastUsedPlaceId ELSE Null,
        nextServers |-> data.nextServers]
  ELSE [accounts |-> EmptyMap, keys |-> << >>, objs |-> (ProtoRef :> ProtoObject),
        lastUsedPlaceId |-> Null, nextServers |-> EmptyMap]

\* initialize: the registry after loading `data` (the accounts, the last
\* place id or null, the next servers when the file has them).
initialize(data, clock) ==
  LET refs == RefsFor(DOMAIN data.accounts, 1)
  IN [accounts |-> refs,
      keys |-> KeysByRef(refs),
      objs |-> (ProtoRef :> ProtoObject) @@
               [o \in {refs[k] : k \in DOMAIN refs} |->
                  Account(data.accounts[CHOOSE k \in DOMAIN refs : refs[k] = o], clock)],
      lastUsedPlaceId |->
        IF data.fmt = "wrapped" /\ TruthyVal(data.lastUsedPlaceId)
        THEN data.lastUsedPlaceId ELSE Null,
      nextServers |-> IF data.fmt = "wrapped" THEN data.nextServers ELSE EmptyMap]

\* ------------------------------------------------------- Account Registry

\* What a call recorded in the history returned: the key or text returned,
\* true and false as the replies print them; or the error it threw.
NoCall == [op |-> "", accountName |-> "", args |-> << >>, threw |-> FALSE, ret |-> "", list |-> << >>]
Bool(b) == IF b THEN "true" ELSE "false"
CryptoUndefined == "ReferenceError: crypto is not defined"

\* addAccount after getAccountInfo returned accountInfo (name "Unknown" and
\* no id when both lookups failed): the key, the new Account stored under
\* it, the save, and the key returned.  crypto.randomUUID() is a value never
\* drawn before.  The file requires no crypto module: `crypto` is the global
\* of the runtime, and where the runtime defines none the expression throws
\* a ReferenceError, in the try block and again in the catch block.
addAccount(s, securityToken, password, accountInfo, clock, cryptoDefined) ==
  LET username == IF TruthyStr(accountInfo.name) THEN accountInfo.name ELSE "Unknown"
      randomId == "r" \o ToString(s.hist.rand)
      userId == IF TruthyStr(accountInfo.id) THEN accountInfo.id ELSE randomId
      accountKey == IF username # "Unknown" THEN username ELSE "Account_" \o userId
      ref == Cardinality(DOMAIN s.objs)
      account == Account(NewAccountData(username, userId, securityToken, password, clock),
                         clock)
  IN IF ~TruthyStr(accountInfo.id) /\ ~cryptoDefined
     THEN [s |-> s, threw |-> TRUE, ret |-> CryptoUndefined]
     ELSE [s |-> saveAccounts(
                   [s EXCEPT !.accounts = (accountKey :> ref) @@ @,
                             !.objs = (ref :> account) @@ @,
                             !.hist.rand = IF TruthyStr(accountInfo.id) THEN @ ELSE @ + 1,
                             !.hist.keys = IF accountKey \in DOMAIN s.accounts THEN @
                                           ELSE Append(@, accountKey)]),
           threw |-> FALSE, ret |-> accountKey]

\* deleteAccount: the registry after the call, and the value returned.
deleteAccount(s, accountName) ==
  IF ~Truthy(GetAccount(s.accounts, accountName))
  THEN [s |-> s, ret |-> FALSE]
  ELSE [s |-> saveAccounts(
                [s EXCEPT !.accounts = Without(@, accountName),
                          !.hist.keys = SelectSeq(@, LAMBDA k : k # accountName)]),
        ret |-> TRUE]

\* The keys that are array indices (canonical numeric strings), with their
\* values: an object lists these before its other keys.
IndexKeys == ("7" :> 7) @@ ("42" :> 42)

\* The index keys among ks in ascending numeric order.
RECURSIVE IndexOrder(_)
IndexOrder(ks) ==
  IF ks = {} THEN << >>
  ELSE LET k == CHOOSE x \in ks : \A y \in ks : IndexKeys[x] <= IndexKeys[y]
       IN << k >> \o IndexOrder(ks \ {k})

\* The own keys of an object as Object.values and Object.keys visit them:
\* the index keys in ascending order, then the other keys in the order in
\* which they were created.
OwnKeys(keys) ==
  IndexOrder({keys[i] : i \in DOMAIN keys} \cap DOMAIN IndexKeys)
    \o SelectSeq(keys, LAMBDA k : k \notin DOMAIN IndexKeys)

\* listAccounts: Object.values(this.accounts), the accounts as references.
listAccounts(s) ==
  LET keys == OwnKeys(s.hist.keys)
  IN [i \in DOMAIN keys |-> s.accounts[keys[i]]]

\* setNextServerForAccount: the registry after the call (the save is not
\* awaited), and the value returned.
setNextServerForAccount(s, accountName, placeId, jobId, clock) ==
  IF ~Truthy(GetAccount(s.accounts, accountName))
  THEN [s |-> s, ret |-> FALSE]
  ELSE [s |-> saveAccountsNoAwait(
                [s EXCEPT !.nextServers =
                            (accountName :> [placeId |-> placeId, jobId |-> jobId,
                                             setAt |-> clock]) @@ @,
                          !.hist.ovSer = (accountName :> s.hist.ser) @@ @,
                          !.hist.ser = @ + 1]),
        ret |-> TRUE]

\* setAccountAlias: account.alias = alias on whatever this.accounts[key] is.
setAccountAlias(s, accountName, alias) ==
  LET account == GetAccount(s.accounts, accountName)
  IN IF ~Truthy(account)
     THEN [s |-> s, ret |-> FALSE]
     ELSE [s |-> saveAccountsNoAwait([s EXCEPT !.objs[account].alias = alias]),
           ret |-> TRUE]

\* setAccountDescription
setAccountDescription(s, accountName, description) ==
  LET account == GetAccount(s.accounts, accountName)
  IN IF ~Truthy(account)
     THEN [s |-> s, ret |-> FALSE]
     ELSE [s |-> saveAccountsNoAwait([s EXCEPT !.objs[account].description = description]),
           ret |-> TRUE]

\* getAccountAlias: account.alias || '' of whatever this.accounts[key] is.
getAccountAlias(s, accountName) ==
  LET account == GetAccount(s.accounts, accountName)
  IN IF ~Truthy(account) THEN ""
     ELSE IF TruthyStr(s.objs[account].alias) THEN s.objs[account].alias ELSE ""

\* getAccountDescription
getAccountDescription(s, accountName) ==
  LET account == GetAccount(s.accounts, accountName)
  IN IF ~Truthy(account) THEN ""
     ELSE IF TruthyStr(s.objs[account].description) THEN s.objs[account].description
          ELSE ""

\* ------------------------------------------------------ remote responses

\* What a fetch ends with: a response (its status and the value of the
\* header the caller looks for, "" when the response has no such header), or
\* a throw when the request could not be made or answered.
NoResponse == [failed |-> FALSE, status |-> 0, header |-> ""]
FetchFailed == [failed |-> TRUE, status |-> 0, header |-> ""]
Answer(status, header) == [failed |-> FALSE, status |-> status, header |-> header]
CsrfResponses ==
  {FetchFailed, Answer(403, "csrf"), Answer(403, ""), Answer(200, "csrf"), Answer(200, "")}
TicketResponses ==
  {FetchFailed, Answer(200, "ticket"), Answer(200, ""), Answer(403, "")}

\* A handshake that takes the header of any response.
getCSRFTokenOfAnyStatus(response) == IF response.failed THEN "" ELSE response.header

\* getCSRFToken, from the end of its fetch: the x-csrf-token header of a 403
\* response; null ("") for any other response and for a throw, which the
\* catch block turns into null.
getCSRFToken(response) ==
  IF response.failed THEN ""
  ELSE IF response.status = 403 /\ response.header # "" THEN response.header
  ELSE ""

\* getAuthTicket, from the end of its second fetch: the
\* rbx-authentication-ticket header, or null.
AuthTicketOf(response) == IF response.failed THEN "" ELSE response.header

\* ----------------------------------------------------- formatLaunchURL

\* Strings as the sequences of their characters.  The characters
\* encodeURIComponent leaves as they are, and the escapes of the others
\* that occur in a place launcher URL.
Unreserved ==
  {"A", "B", "C", "D", "E", "F", "G", "H", "I", "J", "K", "L", "M", "N",
     "O", "P", "Q", "R", "S", "T", "U", "V", "W", "X", "Y", "Z", "a", "b",
     "c", "d", "e", "f", "g", "h", "i", "j", "k", "l", "m", "n", "o", "p",
     "q", "r", "s", "t", "u", "v", "w", "x", "y", "z", "0", "1", "2", "3",
     "4", "5", "6", "7", "8", "9", "-", "_", ".", "!", "~", "*", "'", "(",
     ")"}
PercentCode ==
  (":" :> << "%", "3", "A" >>) @@ ("/" :> << "%", "2", "F" >>) @@
  ("?" :> << "%", "3", "F" >>) @@ ("=" :> << "%", "3", "D" >>) @@
  ("&" :> << "%", "2", "6" >>) @@ ("+" :> << "%", "2", "B" >>) @@
  (" " :> << "%", "2", "0" >>) @@ ("%" :> << "%", "2", "5" >>)

\* encodeURIComponent: each character, or its escape (computed by halves).
RECURSIVE encodeURIComponent(_)
encodeURIComponent(cs) ==
  IF cs = << >> THEN << >>
  ELSE IF Len(cs) = 1
  THEN IF cs[1] \in Unreserved THEN cs ELSE PercentCode[cs[1]]
  ELSE encodeURIComponent(SubSeq(cs, 1, Len(cs) \div 2))
       \o encodeURIComponent(SubSeq(cs, (Len(cs) \div 2) + 1, Len(cs)))

\* A format that puts the place launcher URL in as it is.
formatLaunchURLUnencoded(placeLauncherUrl, authTicket, browserTrackerId, launchTime) ==
  << "r", "o", "b", "l", "o", "x", "-", "p", "l", "a", "y", "e", "r", ":",
     "1", "+", "l", "a", "u", "n", "c", "h", "m", "o", "d", "e", ":", "p",
     "l", "a", "y", "+", "g", "a", "m", "e", "i", "n", "f", "o", ":" >>
  \o authTicket \o
  << "+", "l", "a", "u", "n", "c", "h", "t", "i", "m", "e", ":" >>
  \o ToDigits(launchTime) \o
  << "+", "p", "l", "a", "c", "e", "l", "a", "u", "n", "c", "h", "e", "r",
     "u", "r", "l", ":" >>
  \o placeLauncherUrl \o
  << "+", "b", "r", "o", "w", "s", "e", "r", "t", "r", "a", "c", "k", "e",
     "r", "i", "d", ":" >>
  \o browserTrackerId \o
  << "+", "r", "o", "b", "l", "o", "x", "L", "o", "c", "a", "l", "e", ":",
     "e", "n", "_", "u", "s", "+", "g", "a", "m", "e", "L", "o", "c", "a",
     "l", "e", ":", "e", "n", "_", "u", "s", "+", "c", "h", "a", "n", "n",
     "e", "l", ":", "+", "L", "a", "u", "n", "c", "h", "E", "x", "p", ":",
     "I", "n", "A", "p", "p" >>

\* formatLaunchURL: the template literal with its four values.
formatLaunchURL(placeLauncherUrl, authTicket, browserTrackerId, launchTime) ==
  << "r", "o", "b", "l", "o", "x", "-", "p", "l", "a", "y", "e", "r", ":",
     "1", "+", "l", "a", "u", "n", "c", "h", "m", "o", "d", "e", ":", "p",
     "l", "a", "y", "+", "g", "a", "m", "e", "i", "n", "f", "o", ":" >>
  \o authTicket \o
  << "+", "l", "a", "u", "n", "c", "h", "t", "i", "m", "e", ":" >>
  \o ToDigits(launchTime) \o
  << "+", "p", "l", "a", "c", "e", "l", "a", "u", "n", "c", "h", "e", "r",
     "u", "r", "l", ":" >>
  \o encodeURIComponent(placeLauncherUrl) \o
  << "+", "b", "r", "o", "w", "s", "e", "r", "t", "r", "a", "c", "k", "e",
     "r", "i", "d", ":" >>
  \o browserTrackerId \o
  << "+", "r", "o", "b", "l", "o", "x", "L", "o", "c", "a", "l", "e", ":",
     "e", "n", "_", "u", "s", "+", "g", "a", "m", "e", "L", "o", "c", "a",
     "l", "e", ":", "e", "n", "_", "u", "s", "+", "c", "h", "a", "n", "n",
     "e", "l", ":", "+", "L", "a", "u", "n", "c", "h", "E", "x", "p", ":",
     "I", "n", "A", "p", "p" >>

\* ---------------------------------------------------- launch: the locals

\* One launch request: where it is (pc), its arguments, its local variables
\* and what it did so far (writes issued, remote requests, launcher calls).
Idle ==
  [pc |-> "idle", accountName |-> "", placeId |-> Null, jobId |-> "",
   followUser |-> FALSE, joinVIP |-> FALSE,
   account |-> NoRef, serverToJoin |-> "", w |-> 0,
   authTicket |-> "", accessCode |-> "", linkCode |-> "",
   result |-> "", launchURL |-> << >>,
   consumed |-> 0, generated |-> FALSE, writes |-> 0, requests |-> << >>, execs |-> 0,
   launcher |-> "",
   csrfToken |-> "", tokenSent |-> "", csrfResponse |-> NoResponse,
   ticketResponse |-> NoResponse,
   formatArgs |-> << >>, formatted |-> << >>]

Request(accountName, placeId, jobId, followUser, joinVIP) ==
  [Idle EXCEPT !.pc = "start", !.accountName = accountName, !.placeId = placeId,
               !.jobId = jobId, !.followUser = followUser, !.joinVIP = joinVIP]

\* The messages of the results, by name.
NotFound == "Account not found"
InvalidPlace == "Invalid Place ID. Please enter a valid numeric ID."
AuthFailed ==
  "ERROR: Failed to get authentication ticket. Your account session may have expired. Please log in again."
Launched == "Game launch initiated. Roblox should start momentarily."
Thrown == "Error: account.generateBrowserTrackerId is not a function"
SaveThrown == "Error: write failed"

\* A launch that returned keeps its result and what it did, not its locals.
Return(s, L, message) ==
  [s |-> s,
   L |-> [Idle EXCEPT !.pc = "done", !.result = message,
                      !.accountName = L.accountName, !.placeId = L.placeId,
                      !.jobId = L.jobId, !.serverToJoin = L.serverToJoin,
                      !.account = L.account, !.launchURL = L.launchURL,
                      !.consumed = L.consumed, !.generated = L.generated,
                      !.writes = L.writes, !.requests = L.requests,
                      !.execs = L.execs, !.launcher = L.launcher,
                      !.followUser = L.followUser, !.joinVIP = L.joinVIP,
                      !.accessCode = L.accessCode, !.linkCode = L.linkCode]]

\* A save the launch awaits: the write goes in flight and the launch waits
\* at `pc` for it.
AwaitSave(s, L, pc) ==
  [s |-> saveAccounts(s),
   L |-> [L EXCEPT !.pc = pc, !.w = FreshWrite(s.pending), !.writes = @ + 1]]


\* ----------------------------------- RobloxAccountManager.launchGame

\* UseNextServer without the comparison of the places.
UseNextServerOfAnyPlace(servers, accountName, placeId, jobId) ==
  /\ jobId = ""
  /\ accountName \in DOMAIN servers

\* UseNextServer without the test of the job id.
UseNextServerDespiteJobId(servers, accountName, placeId, jobId) ==
  /\ accountName \in DOMAIN servers
  /\ LooseEq(servers[accountName].placeId, placeId)

\* The test that guards the use of the next server: no job id was passed,
\* the account has a next server, and it is for this place.
UseNextServer(servers, accountName, placeId, jobId) ==
  /\ jobId = ""
  /\ accountName \in DOMAIN servers
  /\ LooseEq(servers[accountName].placeId, placeId)

\* A delete that removes nothing.
KeepNextServer(servers, accountName) == servers

\* A delete that empties the map.
ClearEveryNextServer(servers, accountName) == EmptyMap

\* this.nextServers.delete(accountName)
ClearNextServer(servers, accountName) == Without(servers, accountName)

\* A test that finds every account in need of a tracker id.
AlwaysNeedsTrackerId(account) == TRUE

\* True when `account` needs a tracker id: !account.browserTrackerId
NeedsTrackerId(account) == account.browserTrackerId = NoTracker

\* isNaN(parseInt(placeId))
InvalidPlaceId(placeId) == ParseInt(placeId).nan

\* ------------------------------------------ RobloxAPIService.launchGame

\* Server ids are strings; these are the ones that contain the marker
\* "privateServerLinkCode=", with what /privateServerLinkCode=(.+)/ captures
\* ("" when nothing follows the marker and the pattern does not match).
LinkCodes ==
  [j \in {"privateServerLinkCode=vip1", "privateServerLinkCode="} |->
     IF j = "privateServerLinkCode=vip1" THEN "vip1" ELSE ""]

\* jobId && jobId.includes('privateServerLinkCode=')
IncludesLinkCode(jobId) == jobId # "" /\ jobId \in DOMAIN LinkCodes

\* What a template literal prints for null.
NullText == "null"

\* A choice of shape that looks at followUser before joinVIP.
LaunchURLFollowFirst(account, placeId, jobId, followUser, joinVIP, accessCode, linkCode, authTicket, launchTime) ==
  [request |-> IF followUser THEN "RequestFollowUser"
               ELSE IF joinVIP THEN "RequestPrivateGame"
               ELSE IF jobId # "" THEN "RequestGameJob" ELSE "RequestGame",
   placeId |-> IF followUser THEN Null ELSE placeId,
   userId |-> IF followUser THEN placeId ELSE Null,
   accessCode |-> IF joinVIP /\ ~followUser THEN accessCode ELSE "",
   linkCode |-> IF joinVIP /\ ~followUser THEN linkCode ELSE "",
   gameId |-> IF ~joinVIP /\ ~followUser THEN jobId ELSE "",
   gameinfo |-> authTicket,
   launchtime |-> launchTime,
   browsertrackerid |-> account.browserTrackerId]

\* The three shapes of the place launcher request, then formatLaunchURL.
LaunchURL(account, placeId, jobId, followUser, joinVIP, accessCode, linkCode, authTicket, launchTime) ==
  [request |-> IF joinVIP THEN "RequestPrivateGame"
               ELSE IF followUser THEN "RequestFollowUser"
               ELSE IF jobId # "" THEN "RequestGameJob" ELSE "RequestGame",
   placeId |-> IF ~joinVIP /\ followUser THEN Null ELSE placeId,
   userId |-> IF ~joinVIP /\ followUser THEN placeId ELSE Null,
   accessCode |-> IF joinVIP THEN accessCode ELSE "",
   linkCode |-> IF joinVIP THEN linkCode ELSE "",
   gameId |-> IF ~joinVIP /\ ~followUser THEN jobId ELSE "",
   gameinfo |-> authTicket,
   launchtime |-> launchTime,
   browsertrackerid |-> account.browserTrackerId]

\* An end of launchGame that calls exec again for the same URL.
FormatAndExecTwice(s, L, clock) ==
  LET url == LaunchURL(s.objs[L.account], L.placeId, L.serverToJoin, L.followUser,
                       L.joinVIP, L.accessCode, L.linkCode, L.authTicket, clock)
  IN Return(s, [L EXCEPT !.launchURL = << url >>, !.execs = @ + 2,
                         !.launcher = "running"], Launched)

\* The end of launchGame: the URL is formatted, exec is called with it and
\* the result is returned without waiting for the launcher.
FormatAndExec(s, L, clock) ==
  LET url == LaunchURL(s.objs[L.account], L.placeId, L.serverToJoin, L.followUser,
                       L.joinVIP, L.accessCode, L.linkCode, L.authTicket, clock)
  IN Return(s, [L EXCEPT !.launchURL = << url >>, !.execs = @ + 1,
                         !.launcher = "running"], Launched)

\* A callback that turns the result of the launch into a failure when the
\* launcher failed.
execCallbackReportsFailure(L, error) ==
  [L EXCEPT !.launcher = IF error THEN "failed" ELSE "ended",
            !.result = IF error THEN "Error launching Roblox" ELSE @]

\* The callback of exec, called when the launcher has ended, with an error
\* or without: it writes to the log and nothing else.
execCallback(L, error) == [L EXCEPT !.launcher = IF error THEN "failed" ELSE "ended"]

\* A getAuthTicket that asks for the ticket whatever the handshake gave.
AuthTicketAfterCsrfUnchecked(L, csrfToken) ==
  [L EXCEPT !.pc = "ticket", !.csrfToken = csrfToken, !.tokenSent = csrfToken,
            !.requests = Append(@, "ticket")]

\* getAuthTicket after getCSRFToken returned: without a token it returns
\* null; with one it sends the ticket request with the token in its
\* X-CSRF-TOKEN header.
AuthTicketAfterCsrf(L, csrfToken) ==
  IF csrfToken = ""
  THEN [L EXCEPT !.pc = "done", !.csrfToken = csrfToken, !.authTicket = ""]
  ELSE [L EXCEPT !.pc = "ticket", !.csrfToken = csrfToken, !.tokenSent = csrfToken,
                 !.requests = Append(@, "ticket")]

\* getAuthTicket after the ticket request ended: the ticket or null.
AuthTicketAfterFetch(L, response) ==
  [L EXCEPT !.pc = "done", !.ticketResponse = response,
            !.authTicket = AuthTicketOf(response)]

\* A failed handshake that puts the next server the launch took back.
AfterCsrfRestoring(s, L, csrfToken) ==
  IF csrfToken = ""
  THEN Return([s EXCEPT !.nextServers =
                          IF L.consumed # 0
                          THEN (L.accountName :> [placeId |-> L.placeId,
                                                  jobId |-> L.serverToJoin, setAt |-> 1]) @@ @
                          ELSE @,
                        !.hist.ovSer = IF L.consumed # 0
                                       THEN (L.accountName :> L.consumed) @@ @ ELSE @],
              L, AuthFailed)
  ELSE [s |-> s, L |-> AuthTicketAfterCsrf(L, csrfToken)]

\* A handshake whose failure ends the launch with no message.
AfterCsrfNoMessage(s, L, csrfToken) ==
  IF csrfToken = ""
  THEN Return(s, L, "")
  ELSE [s |-> s, L |-> [L EXCEPT !.pc = "ticket", !.requests = Append(@, "ticket")]]

\* getAuthTicket after getCSRFToken returned: without a token no ticket (and
\* launchGame returns the failure); with one, the ticket request is out.
AfterCsrf(s, L, csrfToken) ==
  LET G == AuthTicketAfterCsrf(L, csrfToken)
  IN IF G.pc = "done" THEN Return(s, L, AuthFailed) ELSE [s |-> s, L |-> G]

\* A launch that goes on to the URL with whatever getAuthTicket returned.
AfterTicketUnchecked(s, L, authTicket, clock) ==
  LET L1 == [L EXCEPT !.authTicket = authTicket, !.accessCode = L.serverToJoin]
  IN IF IncludesLinkCode(L.serverToJoin) /\ LinkCodes[L.serverToJoin] # ""
     THEN [s |-> s,
           L |-> [L1 EXCEPT !.pc = "accessCsrf",
                            !.linkCode = LinkCodes[L.serverToJoin],
                            !.requests = Append(@, "csrf")]]
     ELSE FormatAndExec(s, L1, clock)

\* A launch that asks for an access code whatever its server id is.
AfterTicketAlwaysResolves(s, L, authTicket, clock) ==
  IF authTicket = ""
  THEN Return(s, L, AuthFailed)
  ELSE [s |-> s,
        L |-> [L EXCEPT !.authTicket = authTicket, !.accessCode = L.serverToJoin,
                        !.pc = "accessCsrf", !.requests = Append(@, "csrf")]]

\* launchGame after getAuthTicket returned: no ticket is the failure; a job
\* id with a link code asks for the access code (its own CSRF token first);
\* any other goes on to the URL.
AfterTicket(s, L, authTicket, clock) ==
  IF authTicket = ""
  THEN Return(s, L, AuthFailed)
  ELSE LET L1 == [L EXCEPT !.authTicket = authTicket, !.accessCode = L.serverToJoin]
       IN IF IncludesLinkCode(L.serverToJoin) /\ LinkCodes[L.serverToJoin] # ""
          THEN [s |-> s,
                L |-> [L1 EXCEPT !.pc = "accessCsrf",
                                 !.linkCode = LinkCodes[L.serverToJoin],
                                 !.requests = Append(@, "csrf")]]
          ELSE FormatAndExec(s, L1, clock)

\* getPrivateServerAccessCode after getCSRFToken returned: without a token
\* the access code is null; with one, the request for the page is out.
AfterAccessCsrf(s, L, csrfToken, clock) ==
  IF csrfToken = ""
  THEN FormatAndExec(s, [L EXCEPT !.accessCode = NullText], clock)
  ELSE [s |-> s, L |-> [L EXCEPT !.pc = "page", !.requests = Append(@, "page")]]

\* launchGame after the page came back: the access code found in it makes
\* the launch a private one; none leaves the access code null.
AfterPage(s, L, code, clock) ==
  FormatAndExec(s, [L EXCEPT !.accessCode = IF code = "" THEN NullText ELSE code,
                             !.joinVIP = IF code = "" THEN @ ELSE TRUE], clock)

\* RobloxAPIService.launchGame up to the first fetch of getCSRFToken:
\* updateLastUsed, then the request for the CSRF token is out.
ApiLaunchGame(s, L, clock) ==
  [s |-> [s EXCEPT !.objs[L.account].lastUsed = clock],
   L |-> [L EXCEPT !.pc = "csrf", !.requests = Append(@, "csrf")]]

\* A validation that saves without storing the place id.
FromValidateKeepsPlace(s, L) ==
  IF InvalidPlaceId(L.placeId)
  THEN Return(s, L, InvalidPlace)
  ELSE AwaitSave(s, L, "savePlace")

\* From the validation of the place id: an invalid id returns; a valid one
\* is stored as the last used place and saved.
FromValidate(s, L) ==
  IF InvalidPlaceId(L.placeId)
  THEN Return(s, L, InvalidPlace)
  ELSE AwaitSave([s EXCEPT !.lastUsedPlaceId = L.placeId], L, "savePlace")

\* From the tracker id: an account without one gets one, saved at once.
\* The value inherited from Object.prototype has no generateBrowserTrackerId:
\* the call throws, and the catch of launchGame returns the error.
FromTracker(s, L, k) ==
  IF NeedsTrackerId(s.objs[L.account])
  THEN IF L.account = ProtoRef
       THEN Return(s, L, Thrown)
       ELSE AwaitSave(
              [s EXCEPT !.objs[L.account].browserTrackerId = generateBrowserTrackerId(k)],
              [L EXCEPT !.generated = TRUE], "saveTracker")
  ELSE FromValidate(s, L)

\* From the start of launchGame: the account, then the next server.
FromStart(s, L, k) ==
  LET account == GetAccount(s.accounts, L.accountName)
  IN IF ~Truthy(account)
     THEN Return(s, L, NotFound)
     ELSE IF UseNextServer(s.nextServers, L.accountName, L.placeId, L.jobId)
     THEN AwaitSave(
            [s EXCEPT !.nextServers = ClearNextServer(@, L.accountName),
                      !.hist.ovSer = ClearNextServer(@, L.accountName)],
            [L EXCEPT !.account = account,
                      !.serverToJoin = s.nextServers[L.accountName].jobId,
                      !.consumed = IF L.accountName \in DOMAIN s.hist.ovSer
                                   THEN s.hist.ovSer[L.accountName] ELSE 0],
            "saveServer")
     ELSE FromTracker(s, [L EXCEPT !.account = account, !.serverToJoin = L.jobId], k)

\* ----------------------------------------------------------------- inputs

Names == {"alice", "bob"}                 \* names the remote lookup reports
AccountNames == Names \cup ProtoKeys      \* account names callers pass
UserIdOf == [n \in Names |-> IF n = "alice" THEN "1001" ELSE "1002"]
SecurityTokens == {"cookie3"}
Passwords == {"", "secret"}
Aliases == {"main"}
Descriptions == {"farm"}
\* Place ids as the control surface passes them (query strings) and as the
\* command line passes them (parseInt of the line typed).
PlaceIds == {Str(<<"7">>), Str(<<"7", "a">>), Str(<<"a", "b">>)}
TypedPlaceIds == {Num(<<"7">>), Num(<<"0">>)}
ServerIds == {"srv1", "privateServerLinkCode=vip1"}
JobIds == {""} \cup ServerIds

\* What the failed lookup returns.
UnknownInfo == [name |-> "Unknown", id |-> Undefined]
AccountInfos == {[name |-> n, id |-> UserIdOf[n]] : n \in Names} \cup {UnknownInfo}
\* A user whose name is a number.
DigitsInfo == [name |-> "42", id |-> "1042"]

\* Accounts files left by earlier runs.
StoredAlice ==
  [username |-> "alice", userId |-> "1001", securityToken |-> "cookie1",
   password |-> "", addedAt |-> 1, lastUsed |-> NoTime,
   browserTrackerId |-> NoTracker, alias |-> Undefined,
   description |-> Undefined, group |-> Undefined]

StoredBob ==
  [username |-> "bob", userId |-> "1002", securityToken |-> "cookie2",
   password |-> "secret", addedAt |-> 1, lastUsed |-> 1,
   browserTrackerId |-> generateBrowserTrackerId(1), alias |-> "main",
   description |-> Undefined, group |-> Undefined]

FileOne ==
  [fmt |-> "wrapped", accounts |-> ("alice" :> StoredAlice),
   lastUsedPlaceId |-> Null,
   nextServers |-> ("alice" :> [placeId |-> Str(<<"7">>), jobId |-> "srv1", setAt |-> 1])]

FileTwo ==
  [fmt |-> "wrapped",
   accounts |-> ("alice" :> StoredAlice) @@ ("bob" :> StoredBob),
   lastUsedPlaceId |-> Str(<<"7">>),
   nextServers |-> ("bob" :> [placeId |-> Str(<<"7">>), jobId |-> "srv1", setAt |-> 1])]

InitialFiles == {NoFile, FileOne, FileTwo}

\* ------------------------------------------------------------------ Init

\* The state after the constructor: an empty registry beside whatever file
\* an earlier run left.
Init ==
  /\ phase = "constructed"
  /\ accounts = EmptyMap
  /\ objs = (ProtoRef :> ProtoObject)
  /\ nextServers = EmptyMap
  /\ lastUsedPlaceId = Null
  /\ disk \in InitialFiles
  /\ pending = {}
  /\ proc = [p \in Procs |-> Idle]
  /\ hist = [ops |-> 0, launches |-> 0, rand |-> 1, ser |-> 1, ovSer |-> EmptyMap,
             call |-> NoCall, keys |-> << >>, failed |-> FALSE, apiPassword |-> ""]

\* --------------------------------------------------------------- actions

\* The registry part of the state becomes s.
Store(s) ==
  /\ accounts' = s.accounts
  /\ objs' = s.objs
  /\ nextServers' = s.nextServers
  /\ lastUsedPlaceId' = s.lastUsedPlaceId
  /\ pending' = s.pending
  /\ hist' = s.hist

\* One more operation is started.
Started(s) == [s EXCEPT !.hist.ops = @ + 1]

\* The clock: the files of earlier runs were written at 1, and every
\* operation of this run starts later than the one before.
now == hist.ops + 1

Ready == phase = "ready" /\ hist.ops < MaxOps

\* initialize(): the file is read and its accounts, last place id and next
\* servers become the registry.
Initialize ==
  /\ phase = "constructed"
  /\ phase' = "ready"
  /\ LET r == initialize(loadAccountsFromFile(disk), now)
     IN /\ accounts' = r.accounts
        /\ objs' = r.objs
        /\ nextServers' = r.nextServers
        /\ lastUsedPlaceId' = r.lastUsedPlaceId
        /\ hist' = [hist EXCEPT !.ovSer = [k \in DOMAIN r.nextServers |-> hist.ser],
                                !.ser = @ + 1,
                                !.keys = r.keys]
  /\ UNCHANGED << disk, pending, proc >>

\* addAccount(securityToken, password), from the answer of the lookup on.
AddAccount ==
  /\ Ready
  /\ \E securityToken \in SecurityTokens, password \in Passwords,
        accountInfo \in AccountInfos :
       \E cryptoDefined \in BOOLEAN :
         Store(addAccount(Started(Cur), securityToken, password, accountInfo, now + 1,
                          cryptoDefined).s)
  /\ UNCHANGED << phase, disk, proc >>

\* deleteAccount(accountName)
DeleteAccount ==
  /\ Ready
  /\ \E accountName \in AccountNames :
       Store(deleteAccount(Started(Cur), accountName).s)
  /\ UNCHANGED << phase, disk, proc >>

\* setNextServerForAccount(accountName, placeId, jobId)
SetNextServerForAccount ==
  /\ Ready
  /\ \E accountName \in AccountNames, placeId \in PlaceIds, jobId \in ServerIds :
       Store(setNextServerForAccount(Started(Cur), accountName, placeId, jobId,
                                     now + 1).s)
  /\ UNCHANGED << phase, disk, proc >>

\* setAccountAlias(accountName, alias)
SetAccountAlias ==
  /\ Ready
  /\ \E accountName \in AccountNames, alias \in Aliases :
       Store(setAccountAlias(Started(Cur), accountName, alias).s)
  /\ UNCHANGED << phase, disk, proc >>

\* setAccountDescription(accountName, description)
SetAccountDescription ==
  /\ Ready
  /\ \E accountName \in AccountNames, description \in Descriptions :
       Store(setAccountDescription(Started(Cur), accountName, description).s)
  /\ UNCHANGED << phase, disk, proc >>

\* The launch request p takes the step `out`.
Step(p, out) ==
  /\ Store(out.s)
  /\ proc' = [proc EXCEPT ![p] = out.L]

\* A request slot is free when no request is in flight in it; the first free
\* slot takes the next request.
InFlight(p) == proc[p].pc \notin {"idle", "done"}
FirstFree(p) == ~InFlight(p) /\ \A q \in Procs : q < p => InFlight(q)

\* The calls of launchGame: /LaunchAccount (account, place, job id or ""),
\* /FollowUser (account, user name, "", true), and the command line (an
\* account picked from the list, parseInt of the place id, the job id).
LaunchRequests(listed) ==
  {Request(a, pl, j, FALSE, FALSE) : a \in AccountNames, pl \in PlaceIds, j \in JobIds}
  \cup {Request(a, pl, "", TRUE, FALSE) : a \in AccountNames, pl \in PlaceIds}
  \cup {Request(a, pl, j, FALSE, FALSE) : a \in listed, pl \in TypedPlaceIds, j \in JobIds}

\* launchGame(accountName, placeId, jobId, followUser, joinVIP) is called and
\* runs to its first await or to its return.
LaunchGame(p) ==
  /\ Ready
  /\ FirstFree(p)
  /\ \E r \in LaunchRequests(DOMAIN accounts), k \in RandomDraws :
       Step(p, FromStart([Started(Cur) EXCEPT !.hist.launches = @ + 1], r, k))
  /\ UNCHANGED << phase, disk >>

\* The write a launch awaits ends (ok or not) and the launch runs on to its
\* next await or to its return.
SaveReturns(p) ==
  /\ proc[p].pc \in {"saveServer", "saveTracker", "savePlace"}
  /\ \E w \in pending, ok \in BOOLEAN, k \in RandomDraws :
       /\ w.id = proc[p].w
       /\ disk' = saveAccountsToFile(disk, w.data, ok)
       /\ LET s == [Cur EXCEPT !.pending = @ \ {w}, !.hist.failed = @ \/ ~ok]
              L == [proc[p] EXCEPT !.w = 0]
          IN Step(p, CASE saveAccountsThrows(ok) -> Return(s, L, SaveThrown)
                       [] proc[p].pc = "saveServer" -> FromTracker(s, L, k)
                       [] proc[p].pc = "saveTracker" -> FromValidate(s, L)
                       [] proc[p].pc = "savePlace" -> ApiLaunchGame(s, L, now))
  /\ UNCHANGED phase

\* A write nobody in the model waits for ends, ok or not.
WriteEnds ==
  /\ \E w \in pending, ok \in BOOLEAN :
       /\ \A p \in Procs : proc[p].w # w.id
       /\ disk' = saveAccountsToFile(disk, w.data, ok)
       /\ pending' = pending \ {w}
       /\ hist' = [hist EXCEPT !.failed = @ \/ ~ok]
  /\ UNCHANGED << phase, accounts, objs, nextServers, lastUsedPlaceId, proc >>

\* What the remote service can answer: a value, or nothing ("").
CsrfTokens == {getCSRFToken(response) : response \in CsrfResponses}
AuthTickets == {AuthTicketOf(response) : response \in TicketResponses}
AccessCodes == {"", "code"}

\* The answer to a launch's outstanding request arrives and the launch runs
\* on to its next await or to its return.
Response(p) ==
  /\ proc[p].pc \in {"csrf", "ticket", "accessCsrf", "page"}
  /\ \/ /\ proc[p].pc = "csrf"
        /\ \E csrfToken \in CsrfTokens : Step(p, AfterCsrf(Cur, proc[p], csrfToken))
     \/ /\ proc[p].pc = "ticket"
        /\ \E authTicket \in AuthTickets :
             Step(p, AfterTicket(Cur, proc[p], authTicket, now))
     \/ /\ proc[p].pc = "accessCsrf"
        /\ \E csrfToken \in CsrfTokens :
             Step(p, AfterAccessCsrf(Cur, proc[p], csrfToken, now))
     \/ /\ proc[p].pc = "page"
        /\ \E code \in AccessCodes : Step(p, AfterPage(Cur, proc[p], code, now))
  /\ UNCHANGED << phase, disk >>

Next ==
  \/ Initialize
  \/ AddAccount
  \/ DeleteAccount
  \/ SetNextServerForAccount
  \/ SetAccountAlias
  \/ SetAccountDescription
  \/ \E p \in Procs : LaunchGame(p)
  \/ \E p \in Procs : SaveReturns(p)
  \/ WriteEnds
  \/ \E p \in Procs : Response(p)

Spec == Init /\ [][Next]_vars

\* ------------------------------- RobloxAPIService.launchGame on its own

\* Server ids with the marker of a link code, with and without a code.
ApiJobIds == JobIds \cup {"privateServerLinkCode="}
ApiPlaceIds == {Str(<<"7">>), Num(<<"7">>)}

\* The registry as loaded from one of the files of an earlier run.
InitApi ==
  /\ phase = "ready"
  /\ disk \in {FileOne, FileTwo}
  /\ LET r == initialize(loadAccountsFromFile(disk), 1)
     IN /\ accounts = r.accounts
        /\ objs = r.objs
        /\ nextServers = r.nextServers
        /\ lastUsedPlaceId = r.lastUsedPlaceId
        /\ hist = [ops |-> 0, launches |-> 0, rand |-> 1, ser |-> 2,
                   ovSer |-> [k \in DOMAIN r.nextServers |-> 1], call |-> NoCall,
                   keys |-> r.keys, failed |-> FALSE, apiPassword |-> ""]
  /\ pending = {}
  /\ proc = [p \in Procs |-> Idle]

\* apiService.launchGame(account, placeId, jobId, followUser, joinVIP) is
\* called with an account of the registry and any arguments, and runs to its
\* first await.
ApiLaunch(p) ==
  /\ Ready
  /\ FirstFree(p)
  /\ \E a \in DOMAIN accounts, placeId \in ApiPlaceIds, jobId \in ApiJobIds,
        followUser \in BOOLEAN, joinVIP \in BOOLEAN :
       Step(p, ApiLaunchGame(
                 [Started(Cur) EXCEPT !.hist.launches = @ + 1],
                 [Request(a, placeId, jobId, followUser, joinVIP)
                    EXCEPT !.account = accounts[a], !.serverToJoin = jobId],
                 now))
  /\ UNCHANGED << phase, disk >>

\* The launcher started by a launch ends and the callback of exec runs.
ExecCallback(p) ==
  /\ proc[p].launcher = "running"
  /\ \E error \in BOOLEAN : proc' = [proc EXCEPT ![p] = execCallback(proc[p], error)]
  /\ UNCHANGED << phase, accounts, objs, nextServers, lastUsedPlaceId, disk, pending, hist >>

NextApi ==
  \/ \E p \in Procs : ApiLaunch(p)
  \/ \E p \in Procs : Response(p)
  \/ \E p \in Procs : ExecCallback(p)

SpecApi == InitApi /\ [][NextApi]_vars

\* ------------------------------------------------ getAuthTicket on its own

\* apiService.getAuthTicket(account.securityToken) is called for an account
\* of the registry and runs to the fetch of getCSRFToken.
GetAuthTicket(p) ==
  /\ Ready
  /\ FirstFree(p)
  /\ \E a \in DOMAIN accounts :
       proc' = [proc EXCEPT ![p] = [Idle EXCEPT !.pc = "csrf", !.accountName = a,
                                                !.account = accounts[a],
                                                !.requests = << "csrf" >>]]
  /\ hist' = [hist EXCEPT !.ops = @ + 1]
  /\ UNCHANGED << phase, accounts, objs, nextServers, lastUsedPlaceId, disk, pending >>

\* The fetch a getAuthTicket waits for ends, with a response or a throw.
FetchEnds(p) ==
  /\ \/ /\ proc[p].pc = "csrf"
        /\ \E response \in CsrfResponses :
             proc' = [proc EXCEPT ![p] =
                        AuthTicketAfterCsrf([proc[p] EXCEPT !.csrfResponse = response],
                                            getCSRFToken(response))]
     \/ /\ proc[p].pc = "ticket"
        /\ \E response \in TicketResponses :
             proc' = [proc EXCEPT ![p] = AuthTicketAfterFetch(proc[p], response)]
  /\ UNCHANGED << phase, accounts, objs, nextServers, lastUsedPlaceId, disk, pending,
                  hist >>

NextFetch ==
  \/ \E p \in Procs : GetAuthTicket(p)
  \/ \E p \in Procs : FetchEnds(p)

SpecFetch == InitApi /\ [][NextFetch]_vars

\* -------------------------------- tracker id and launch URL on their own

TrackerSteps == 40   \* Math.random() is k / TrackerSteps in this part

\* Place launcher URLs: a follow request, and a join request whose job id
\* has a space, a plus and a percent sign.
FollowUrl ==
  << "h", "t", "t", "p", "s", ":", "/", "/", "a", "s", "s", "e", "t", "g",
     "a", "m", "e", ".", "r", "o", "b", "l", "o", "x", ".", "c", "o", "m",
     "/", "g", "a", "m", "e", "/", "P", "l", "a", "c", "e", "L", "a", "u",
     "n", "c", "h", "e", "r", ".", "a", "s", "h", "x", "?", "r", "e", "q",
     "u", "e", "s", "t", "=", "R", "e", "q", "u", "e", "s", "t", "F", "o",
     "l", "l", "o", "w", "U", "s", "e", "r", "&", "u", "s", "e", "r", "I",
     "d", "=", "7" >>
JoinUrl ==
  << "h", "t", "t", "p", "s", ":", "/", "/", "a", "s", "s", "e", "t", "g",
     "a", "m", "e", ".", "r", "o", "b", "l", "o", "x", ".", "c", "o", "m",
     "/", "g", "a", "m", "e", "/", "P", "l", "a", "c", "e", "L", "a", "u",
     "n", "c", "h", "e", "r", ".", "a", "s", "h", "x", "?", "r", "e", "q",
     "u", "e", "s", "t", "=", "R", "e", "q", "u", "e", "s", "t", "G", "a",
     "m", "e", "J", "o", "b", "&", "b", "r", "o", "w", "s", "e", "r", "T",
     "r", "a", "c", "k", "e", "r", "I", "d", "=", "1", "0", "0", "0", "0",
     "0", "1", "0", "0", "0", "0", "0", "&", "p", "l", "a", "c", "e", "I",
     "d", "=", "7", "&", "g", "a", "m", "e", "I", "d", "=", "a", " ", "b",
     "+", "c", "%", "&", "i", "s", "P", "l", "a", "y", "T", "o", "g", "e",
     "t", "h", "e", "r", "G", "a", "m", "e", "=", "f", "a", "l", "s", "e" >>
PlaceLauncherUrls == {FollowUrl, JoinUrl}
TicketTexts == {<< "T", "1" >>, << "a", "-", "b", ":", "9" >>}
LaunchTimes == {0, 1730419200}

\* What a template literal prints for account.browserTrackerId.
TrackerText(id) == IF id = NoTracker THEN << "n", "u", "l", "l" >> ELSE id

\* account.generateBrowserTrackerId() on an account of the registry.
GenerateBrowserTrackerId ==
  /\ Ready
  /\ \E a \in DOMAIN accounts, k \in 0 .. (TrackerSteps - 1) :
       objs' = [objs EXCEPT ![accounts[a]].browserTrackerId = TrackerId(k, TrackerSteps)]
  /\ hist' = [hist EXCEPT !.ops = @ + 1]
  /\ UNCHANGED << phase, accounts, nextServers, lastUsedPlaceId, disk, pending, proc >>

\* formatLaunchURL(placeLauncherUrl, authTicket, account.browserTrackerId,
\* launchTime) for an account of the registry, by either of two callers.
FormatLaunchURL(p) ==
  /\ Ready
  /\ \E a \in DOMAIN accounts, url \in PlaceLauncherUrls, ticket \in TicketTexts,
        launchTime \in LaunchTimes :
       LET id == TrackerText(objs[accounts[a]].browserTrackerId)
       IN proc' = [proc EXCEPT ![p] =
                     [Idle EXCEPT !.pc = "done", !.accountName = a,
                                  !.account = accounts[a],
                                  !.formatArgs = << url, ticket, id, launchTime >>,
                                  !.formatted = formatLaunchURL(url, ticket, id, launchTime)]]
  /\ hist' = [hist EXCEPT !.ops = @ + 1]
  /\ UNCHANGED << phase, accounts, objs, nextServers, lastUsedPlaceId, disk, pending >>

NextFormat ==
  \/ GenerateBrowserTrackerId
  \/ \E p \in Procs : FormatLaunchURL(p)

SpecFormat == InitApi /\ [][NextFormat]_vars

\* --------------------------------------- the registry's calls on their own

\* Files of earlier runs in every shape initialize can meet: the two formats,
\* no file, a file cut short in the middle of a write (no JSON), a file the
\* process may not read.
LegacyFile ==
  [fmt |-> "legacy",
   accounts |-> ("alice" :> StoredAlice) @@ ("bob" :> StoredBob),
   lastUsedPlaceId |-> Null, nextServers |-> EmptyMap]
CorruptFile == [FileTwo EXCEPT !.fmt = "corrupt"]
UnreadableFile == [FileOne EXCEPT !.fmt = "unreadable"]
LoadFiles == InitialFiles \cup {LegacyFile, CorruptFile, UnreadableFile}

MaxCalls == 2

InitCalls ==
  /\ phase = "constructed"
  /\ accounts = EmptyMap
  /\ objs = (ProtoRef :> ProtoObject)
  /\ nextServers = EmptyMap
  /\ lastUsedPlaceId = Null
  /\ disk \in LoadFiles
  /\ pending = {}
  /\ proc = [p \in Procs |-> Idle]
  /\ hist = [ops |-> 0, launches |-> 0, rand |-> 1, ser |-> 1, ovSer |-> EmptyMap,
             call |-> NoCall, keys |-> << >>, failed |-> FALSE, apiPassword |-> ""]

CallReady == phase = "ready" /\ hist.ops < MaxCalls

\* The registry after a call, with the call and what it returned noted.
Noted(s, op, accountName, args, threw, ret) ==
  [s EXCEPT !.hist.call = [op |-> op, accountName |-> accountName, args |-> args,
                           threw |-> threw, ret |-> ret, list |-> << >>]]

CallAddAccount ==
  /\ CallReady
  /\ \E securityToken \in SecurityTokens, password \in Passwords,
        accountInfo \in AccountInfos \cup {DigitsInfo}, cryptoDefined \in BOOLEAN :
       LET r == addAccount(Started(Cur), securityToken, password, accountInfo, now + 1,
                           cryptoDefined)
       IN Store(Noted(r.s, "addAccount", "", << securityToken, password, accountInfo >>,
                      r.threw, r.ret))
  /\ UNCHANGED << phase, disk, proc >>

CallDeleteAccount ==
  /\ CallReady
  /\ \E accountName \in AccountNames :
       LET r == deleteAccount(Started(Cur), accountName)
       IN Store(Noted(r.s, "deleteAccount", accountName, << >>, FALSE, Bool(r.ret)))
  /\ UNCHANGED << phase, disk, proc >>

CallSetNextServerForAccount ==
  /\ CallReady
  /\ \E accountName \in AccountNames, placeId \in PlaceIds, jobId \in ServerIds :
       LET r == setNextServerForAccount(Started(Cur), accountName, placeId, jobId, now + 1)
       IN Store(Noted(r.s, "setNextServerForAccount", accountName, << placeId, jobId >>,
                      FALSE, Bool(r.ret)))
  /\ UNCHANGED << phase, disk, proc >>

CallSetAccountAlias ==
  /\ CallReady
  /\ \E accountName \in AccountNames, alias \in Aliases :
       LET r == setAccountAlias(Started(Cur), accountName, alias)
       IN Store(Noted(r.s, "setAccountAlias", accountName, << alias >>, FALSE, Bool(r.ret)))
  /\ UNCHANGED << phase, disk, proc >>

CallSetAccountDescription ==
  /\ CallReady
  /\ \E accountName \in AccountNames, description \in Descriptions :
       LET r == setAccountDescription(Started(Cur), accountName, description)
       IN Store(Noted(r.s, "setAccountDescription", accountName, << description >>,
                      FALSE, Bool(r.ret)))
  /\ UNCHANGED << phase, disk, proc >>

CallGetAccountAlias ==
  /\ CallReady
  /\ \E accountName \in AccountNames :
       Store(Noted(Started(Cur), "getAccountAlias", accountName, << >>, FALSE,
                   getAccountAlias(Cur, accountName)))
  /\ UNCHANGED << phase, disk, proc >>

CallGetAccountDescription ==
  /\ CallReady
  /\ \E accountName \in AccountNames :
       Store(Noted(Started(Cur), "getAccountDescription", accountName, << >>, FALSE,
                   getAccountDescription(Cur, accountName)))
  /\ UNCHANGED << phase, disk, proc >>

CallListAccounts ==
  /\ CallReady
  /\ Store([Noted(Started(Cur), "listAccounts", "", << >>, FALSE, "")
             EXCEPT !.hist.call.list = listAccounts(Cur)])
  /\ UNCHANGED << phase, disk, proc >>

NextCalls ==
  \/ Initialize
  \/ CallAddAccount
  \/ CallDeleteAccount
  \/ CallSetNextServerForAccount
  \/ CallSetAccountAlias
  \/ CallSetAccountDescription
  \/ CallGetAccountAlias
  \/ CallGetAccountDescription
  \/ CallListAccounts
  \/ WriteEnds

SpecCalls == InitCalls /\ [][NextCalls]_vars

\* -------------------------------------------------------- control surface

\* config.API.PASSWORD: none, or a secret.
ApiPasswords == {"", "hunter2"}

\* GET requests: the path and the query parameters the handlers read.
HttpPaths ==
  {"/health", "/Health", "/GetAccounts", "/SetServer", "/SetAlias", "/GetAlias",
   "/LaunchAccount"}
HttpRequests ==
  [path : HttpPaths,
   Password : {Undefined, "", "hunter2", "wrong"},
   password : {Undefined, "hunter2", "wrong"},
   Account : {Undefined, "alice"},
   PlaceId : {Null, Str(<<"7">>)},
   JobId : {Undefined, "privateServerLinkCode=vip1"},
   Alias : {Undefined, "main"}]

\* The routes are matched without regard to case.
RouteOf(path) == IF path = "/Health" THEN "/health" ELSE path

Unauthorized == "401 Unauthorized: Invalid or missing password"

\* A middleware that turns away only the requests with no password.
authMiddlewareMissingOnly(req, password) ==
  LET passwordParam == IF TruthyStr(req.Password) THEN req.Password ELSE req.password
  IN IF req.path = "/health" \/ TruthyStr(passwordParam) THEN "next" ELSE Unauthorized

\* authMiddleware: the reply it sends, or "next" when it hands the request on.
authMiddleware(req, password) ==
  LET passwordParam == IF TruthyStr(req.Password) THEN req.Password ELSE req.password
  IN IF req.path = "/health" THEN "next"
     ELSE IF ~TruthyStr(passwordParam) \/ passwordParam # password THEN Unauthorized
     ELSE "next"

\* initialize: the middleware is in use only if a password is set.
Gate(req, password) ==
  IF TruthyStr(password) THEN authMiddleware(req, password) ELSE "next"

\* The registry after a request, with the handler that ran and its reply
\* noted.
HttpNoted(s, op, req, ret, list) ==
  [s EXCEPT !.hist.call = [op |-> op, accountName |-> req.Account,
                           args |-> << req.path, req.Password, req.password >>,
                           threw |-> FALSE, ret |-> ret, list |-> list]]

\* Whether a request for /LaunchAccount gets to launchGame.
Launches(req) ==
  RouteOf(req.path) = "/LaunchAccount" /\ TruthyStr(req.Account) /\ TruthyVal(req.PlaceId)

\* registerRoutes: the handlers that reply without an await.
Handler(s, req, clock, password) ==
  LET route == RouteOf(req.path)
  IN CASE route = "/health" ->
            HttpNoted(s, "health", req, "200 ok",
                      << ToString(Cardinality(DOMAIN s.accounts)), Bool(TruthyStr(password)) >>)
       [] route = "/GetAccounts" ->
            LET l == listAccounts(s)
            IN HttpNoted(s, "listAccounts", req, "200",
                         [i \in DOMAIN l |-> s.objs[l[i]].username])
       [] route = "/SetServer" ->
            IF ~TruthyStr(req.Account) \/ ~TruthyVal(req.PlaceId) \/ ~TruthyStr(req.JobId)
            THEN HttpNoted(s, "SetServer", req,
                           "400 Account, PlaceId, and JobId are required", << >>)
            ELSE LET r == setNextServerForAccount(s, req.Account, req.PlaceId, req.JobId,
                                                  clock)
                 IN HttpNoted(r.s, "setNextServerForAccount", req,
                              IF r.ret THEN "200 Server set" ELSE "404 Account not found",
                              << >>)
       [] route = "/SetAlias" ->
            IF ~TruthyStr(req.Account)
            THEN HttpNoted(s, "SetAlias", req, "400 Account name is required", << >>)
            ELSE LET r == setAccountAlias(s, req.Account,
                                          IF TruthyStr(req.Alias) THEN req.Alias ELSE "")
                 IN HttpNoted(r.s, "setAccountAlias", req,
                              IF r.ret THEN "200 Alias set" ELSE "404 Account not found",
                              << >>)
       [] route = "/GetAlias" ->
            IF ~TruthyStr(req.Account)
            THEN HttpNoted(s, "GetAlias", req, "400 Account name is required", << >>)
            ELSE HttpNoted(s, "getAccountAlias", req,
                           "200 " \o getAccountAlias(s, req.Account), << >>)
       [] route = "/LaunchAccount" ->
            HttpNoted(s, "LaunchAccount", req, "400 Account and PlaceId are required", << >>)

\* The registry loaded from a file, and the control surface started with or
\* without a password.
InitHttp ==
  /\ phase = "ready"
  /\ disk \in {FileOne, FileTwo}
  /\ LET r == initialize(loadAccountsFromFile(disk), 1)
     IN /\ accounts = r.accounts
        /\ objs = r.objs
        /\ nextServers = r.nextServers
        /\ lastUsedPlaceId = r.lastUsedPlaceId
        /\ \E password \in ApiPasswords :
             hist = [ops |-> 0, launches |-> 0, rand |-> 1, ser |-> 2,
                     ovSer |-> [k \in DOMAIN r.nextServers |-> 1], call |-> NoCall,
                     keys |-> r.keys, failed |-> FALSE, apiPassword |-> password]
  /\ pending = {}
  /\ proc = [p \in Procs |-> Idle]

\* A request that is answered at once: turned away by the middleware, or
\* handled by a route that awaits nothing.
HttpGet ==
  /\ Ready
  /\ \E req \in HttpRequests :
       LET gate == Gate(req, hist.apiPassword)
       IN IF gate # "next"
          THEN Store(HttpNoted(Started(Cur), "authMiddleware", req, gate, << >>))
          ELSE /\ ~Launches(req)
               /\ Store(Handler(Started(Cur), req, now + 1, hist.apiPassword))
  /\ UNCHANGED << phase, disk, proc >>

\* A request for /LaunchAccount that passes the middleware and has its
\* parameters: launchGame is called and runs to its first await or return.
HttpLaunchAccount(p) ==
  /\ Ready
  /\ FirstFree(p)
  /\ \E req \in HttpRequests, k \in RandomDraws :
       /\ Gate(req, hist.apiPassword) = "next"
       /\ Launches(req)
       /\ Step(p, FromStart(
                    HttpNoted([Started(Cur) EXCEPT !.hist.launches = @ + 1],
                              "launchGame", req, "", << >>),
                    Request(req.Account, req.PlaceId,
                            IF TruthyStr(req.JobId) THEN req.JobId ELSE "", FALSE, FALSE),
                    k))
  /\ UNCHANGED << phase, disk >>

NextHttp ==
  \/ HttpGet
  \/ \E p \in Procs : HttpLaunchAccount(p)
  \/ \E p \in Procs : SaveReturns(p)
  \/ WriteEnds
  \/ \E p \in Procs : Response(p)

SpecHttp == InitHttp /\ [][NextHttp]_vars

\* ------------------------------------------------------------ properties

\* The step is the call of launchGame in slot p.
Called(p) == hist'.launches = hist.launches + 1 /\ FirstFree(p)

\* C1: a launch without a job id, on an account whose next server was set
\* for place tA, takes that server as its server to join and removes the
\* entry when it is for tA; when it is for a place that differs from the
\* entry's, the entry stays as it is and the launch joins no set server.
C1_NextServerUsed ==
  [][\A p \in Procs :
       LET L == proc'[p]
           a == L.accountName
       IN (Called(p) /\ L.account # NoRef /\ L.jobId = "" /\ a \in DOMAIN nextServers)
          => /\ (nextServers[a].placeId = L.placeId)
                  => /\ L.serverToJoin = nextServers[a].jobId
                     /\ a \notin DOMAIN nextServers'
                     /\ Without(nextServers, a) = nextServers'
             /\ ~LooseEq(nextServers[a].placeId, L.placeId)
                  => /\ nextServers' = nextServers
                     /\ L.serverToJoin = ""
                     /\ L.consumed = 0]_vars

\* A launch took the server that setNextServerForAccount stored in this run.
C1_Witness ==
  \E p \in Procs :
    /\ proc[p].pc = "saveServer"
    /\ proc[p].jobId = ""
    /\ proc[p].serverToJoin = "privateServerLinkCode=vip1"
    /\ proc[p].consumed > 1
    /\ proc[p].accountName \notin DOMAIN nextServers

\* C2: a launch with a job id joins that job id, and the next server of the
\* account, for this place or another, is neither used nor removed.
C2_ExplicitServerWins ==
  [][\A p \in Procs :
       LET L == proc'[p]
       IN (Called(p) /\ L.account # NoRef /\ L.jobId # "")
          => /\ L.serverToJoin = L.jobId
             /\ L.consumed = 0
             /\ nextServers' = nextServers]_vars

\* A launch with a job id is under way while the account still has a next
\* server for the same place.
C2_Witness ==
  \E p \in Procs :
    LET L == proc[p]
    IN /\ L.pc \in {"saveTracker", "savePlace"}
       /\ L.jobId = "srv1"
       /\ L.serverToJoin = "srv1"
       /\ L.accountName \in DOMAIN nextServers
       /\ nextServers[L.accountName].placeId = L.placeId
       /\ nextServers[L.accountName].jobId # L.jobId

\* C3: deleting an account also drops its next server: a step that removes
\* a key from the accounts leaves no next server under that key.
C3_DeleteDropsNextServer ==
  [][\A k \in DOMAIN accounts :
       k \notin DOMAIN accounts' => k \notin DOMAIN nextServers']_vars

\* C4: an add never replaces a stored record: in a step that creates an
\* Account, every key stored before still refers to the record it referred
\* to, and that record is unchanged.
C4_AddKeepsRecords ==
  [][(DOMAIN objs' # DOMAIN objs /\ phase = "ready")
       => \A k \in DOMAIN accounts :
            /\ k \in DOMAIN accounts'
            /\ accounts'[k] = accounts[k]
            /\ objs'[accounts[k]] = objs[accounts[k]]]_vars

\* C5: of the launches of one account, no two use the same next server (the
\* same entry of the map is taken at most once), no two generate a tracker
\* id for it, and all launch with the same tracker id.
C5_OneConsumerOneTracker ==
  \A p, q \in Procs :
    (p # q /\ proc[p].pc # "idle" /\ proc[q].pc # "idle"
       /\ proc[p].account = proc[q].account /\ proc[p].account # NoRef)
    => /\ ~(proc[p].consumed # 0 /\ proc[p].consumed = proc[q].consumed
              /\ proc[p].accountName = proc[q].accountName)
       /\ ~(proc[p].generated /\ proc[q].generated)
       /\ (proc[p].launchURL # << >> /\ proc[q].launchURL # << >>)
            => proc[p].launchURL[1].browsertrackerid = proc[q].launchURL[1].browsertrackerid

\* Two launches of alice for the same place, neither with a job id, ran
\* together: one took the next server, the other found none and generated
\* the tracker id, and both launched with that id.
C5_Witness ==
  /\ proc[1].pc = "done" /\ proc[2].pc = "done"
  /\ proc[1].accountName = "alice" /\ proc[2].accountName = "alice"
  /\ proc[1].placeId = proc[2].placeId
  /\ proc[1].jobId = "" /\ proc[2].jobId = ""
  /\ proc[1].consumed # 0 /\ proc[2].consumed = 0
  /\ proc[2].generated /\ ~proc[1].generated
  /\ proc[1].result = Launched /\ proc[2].result = Launched
  /\ proc[1].launchURL[1].browsertrackerid = proc[2].launchURL[1].browsertrackerid

\* The registry read back from its own snapshot.
Reloaded == initialize(loadAccountsFromFile(
              dataToSave(accounts, objs, lastUsedPlaceId, nextServers)), now)

\* C6: the snapshot of the registry, loaded into a fresh registry, gives the
\* same keys, the same fields of every record, the same next servers and the
\* same last place id.
C6_RoundTrip ==
  phase = "ready" =>
    /\ DOMAIN Reloaded.accounts = DOMAIN accounts
    /\ \A k \in DOMAIN accounts : Reloaded.objs[Reloaded.accounts[k]] = objs[accounts[k]]
    /\ Reloaded.nextServers = nextServers
    /\ Reloaded.lastUsedPlaceId = lastUsedPlaceId

\* The write that launch p waits for.
AwaitedWrite(p) == CHOOSE w \in pending : w.id = proc[p].w

\* The tracker id that `data` holds for the account of launch p is the one
\* the account has.
HoldsTrackerId(data, p) ==
  /\ proc[p].accountName \in DOMAIN data.accounts
  /\ data.accounts[proc[p].accountName].browserTrackerId
       = objs[proc[p].account].browserTrackerId

\* C7 as stated: when the launch that generated a tracker id goes on, the
\* accounts file holds a snapshot with the id.
C7_TrackerIdWritten ==
  [][\A p \in Procs :
       (proc[p].pc = "saveTracker" /\ proc'[p].pc # "saveTracker")
       => HoldsTrackerId(disk', p)]_vars

\* C7, amended: a tracker id, once an account has one, never changes, and
\* every launch that forms its URL uses it; the launch that generated it
\* goes on only when the write it awaits has ended, with the file then
\* holding the written snapshot or, the write having failed, left as it was;
\* that snapshot holds the id when the account is still the one stored under
\* its name; and every file that holds a tracker id loads with the same id.
C7_TrackerIdStable ==
  /\ [][\A o \in DOMAIN objs :
          objs[o].browserTrackerId # NoTracker
          => objs'[o].browserTrackerId = objs[o].browserTrackerId]_vars
  /\ [][\A p \in Procs :
          (proc[p].pc = "saveTracker" /\ proc'[p].pc # "saveTracker")
          => /\ \E w \in pending : w.id = proc[p].w
             /\ GetAccount(accounts, proc[p].accountName) = proc[p].account
                  => HoldsTrackerId(AwaitedWrite(p).data, p)
             /\ disk' \in {AwaitedWrite(p).data, disk}]_vars
  /\ [](\A p \in Procs :
          proc[p].launchURL # << >>
          => /\ proc[p].launchURL[1].browsertrackerid # NoTracker
             /\ proc[p].launchURL[1].browsertrackerid
                  = objs[proc[p].account].browserTrackerId)
  /\ [](LET r == initialize(loadAccountsFromFile(disk), now)
        IN \A k \in DOMAIN disk.accounts :
             r.objs[r.accounts[k]].browserTrackerId
               = disk.accounts[k].browserTrackerId)

\* A launch of alice, whose tracker id an earlier launch generated and
\* whose file holds it, launched with that id without generating one.
C7_Witness ==
  \E p \in Procs :
    /\ proc[p].pc = "done" /\ proc[p].result = Launched
    /\ proc[p].accountName = "alice" /\ ~proc[p].generated
    /\ hist.launches = 2
    /\ "alice" \in DOMAIN disk.accounts
    /\ disk.accounts["alice"].browserTrackerId = proc[p].launchURL[1].browsertrackerid
    /\ \A q \in Procs : q # p => proc[q].pc = "idle"

\* C8: a launch that returns the invalid place id message used no next
\* server, generated no tracker id and wrote nothing.
C8_InvalidPlaceBeforeEffects ==
  \A p \in Procs :
    (proc[p].pc = "done" /\ proc[p].result = InvalidPlace)
    => (proc[p].consumed = 0 /\ ~proc[p].generated /\ proc[p].writes = 0)

\* C9: a launch on a name that is no key of the accounts has returned the
\* not-found message, having written nothing and requested nothing.
C9_AbsentAccountNotFound ==
  \A p \in Procs :
    (proc[p].pc # "idle" /\ proc[p].account \in {NoRef, ProtoRef})
    => /\ proc[p].pc = "done"
       /\ proc[p].result = NotFound
       /\ proc[p].writes = 0
       /\ proc[p].requests = << >>

\* A place id that is not the text of a number.
NonNumeric(placeId) == placeId.t = "str" /\ ToNumberChars(placeId.v).nan

\* C10: a launch of a stored account with a place id that is not numeric
\* requests nothing from the remote service, starts no launcher and returns
\* the invalid place id message.
C10_NonNumericNoRequest ==
  \A p \in Procs :
    (proc[p].pc # "idle" /\ proc[p].account \notin {NoRef, ProtoRef}
       /\ NonNumeric(proc[p].placeId))
    => /\ proc[p].requests = << >>
       /\ proc[p].execs = 0
       /\ proc[p].pc = "done" => proc[p].result = InvalidPlace

\* A place id that is the text (or the value) of a positive integer.
PositiveInteger(placeId) ==
  /\ placeId.t # "null"
  /\ placeId.v # << >>
  /\ ~ToNumberChars(placeId.v).nan
  /\ ToNumberChars(placeId.v).n > 0

\* C11: a launch of a stored account whose place id is not a positive
\* integer (zero, negative, or digits followed by other characters) never
\* gets as far as the authentication: it stores no last place, requests
\* nothing, and returns the invalid place id message.
C11_OnlyPositiveIntegers ==
  \A p \in Procs :
    (proc[p].pc # "idle" /\ proc[p].account \notin {NoRef, ProtoRef}
       /\ ~PositiveInteger(proc[p].placeId))
    => /\ proc[p].pc \in {"saveServer", "saveTracker", "done"}
       /\ proc[p].requests = << >>
       /\ proc[p].pc = "done" => proc[p].result = InvalidPlace

\* C12: no operation has returned its result while the write it started is
\* in flight: every write in flight is one its caller awaits.
C12_ResultAfterWrite == \A w \in pending : w.awaited

\* The step in which the write launch p awaits ends in failure: the launch
\* moves on and the file is not the snapshot that was to be written.
AwaitedWriteFails(p) ==
  /\ proc[p].pc \in {"saveServer", "saveTracker", "savePlace"}
  /\ proc'[p] # proc[p]
  /\ disk' = disk
  /\ AwaitedWrite(p).data # disk

\* The step in which a write that no launch awaits ends in failure.
OtherWriteFails ==
  \E w \in pending :
    /\ \A p \in Procs : proc[p].w # w.id
    /\ pending' = pending \ {w}
    /\ disk' = disk
    /\ w.data # disk

\* C13: a failed write raises nothing and undoes nothing.  The launch that
\* awaited it goes on as after a successful write (to its next step, with no
\* error but the one a name that is no account of its own meets, whatever
\* the write did), and accounts, next servers, last place and the fields of
\* every account are what they were, but for what the launch does next (a
\* tracker id for an account without one, its last use, the last place).
C13_FailedWriteNonFatal ==
  /\ [][\A p \in Procs :
          AwaitedWriteFails(p)
          => /\ proc'[p].result \in {"", InvalidPlace, Thrown}
             /\ proc'[p].result = Thrown => proc[p].account = ProtoRef
             /\ proc'[p].pc \in
                  CASE proc[p].pc = "saveServer" -> {"saveTracker", "savePlace", "done"}
                    [] proc[p].pc = "saveTracker" -> {"savePlace", "done"}
                    [] proc[p].pc = "savePlace" -> {"csrf"}
             /\ accounts' = accounts
             /\ nextServers' = nextServers
             /\ lastUsedPlaceId' \in {lastUsedPlaceId, proc[p].placeId}
             /\ \A o \in DOMAIN objs :
                  \/ objs'[o] = objs[o]
                  \/ /\ o = proc[p].account
                     /\ [objs'[o] EXCEPT !.lastUsed = 0, !.browserTrackerId = NoTracker]
                          = [objs[o] EXCEPT !.lastUsed = 0, !.browserTrackerId = NoTracker]
                     /\ objs[o].browserTrackerId # NoTracker
                          => objs'[o].browserTrackerId = objs[o].browserTrackerId]_vars
  /\ [][OtherWriteFails
          => UNCHANGED << accounts, objs, nextServers, lastUsedPlaceId, proc >>]_vars

\* A launch of alice from the first file, the only operation so far, has
\* launched although each of its writes failed: the file is as it was, and
\* the registry holds the tracker id and the last place all the same.
C13_Witness ==
  \E p \in Procs :
    /\ proc[p].pc = "done" /\ proc[p].result = Launched
    /\ proc[p].accountName = "alice" /\ proc[p].generated /\ proc[p].writes >= 2
    /\ hist.ops = 1 /\ pending = {}
    /\ disk = FileOne
    /\ objs[proc[p].account].browserTrackerId # NoTracker
    /\ lastUsedPlaceId = proc[p].placeId

\* The program with what its runtime guarantees: a write that was started
\* ends, and the launch that awaits it is resumed.  Nothing makes the remote
\* service answer: fetch is called with no timeout and no abort signal.
FairSpec ==
  /\ Spec
  /\ WF_vars(WriteEnds)
  /\ \A p \in Procs : WF_vars(SaveReturns(p))

\* C14: every launch that was called returns in the end.
C14_LaunchReturns ==
  \A p \in Procs : (proc[p].pc \notin {"idle", "done"}) ~> (proc[p].pc = "done")

\* C15: a launch that returned has a result: one of the messages of
\* launchGame, never an empty one, and the message of success exactly when
\* the launcher was started with a URL; a launch still running has none.
C15_LaunchReturnsMessage ==
  \A p \in Procs :
    /\ proc[p].pc = "done"
         => /\ proc[p].result \in {NotFound, InvalidPlace, AuthFailed, Launched, Thrown}
            /\ proc[p].result # ""
            /\ proc[p].result = Launched
                 <=> (proc[p].execs = 1 /\ proc[p].launchURL # << >>)
    /\ proc[p].pc # "done" => proc[p].result = ""

\* A launch whose request for the CSRF token failed (no token, or the
\* request itself failed) returned the message of the failed authentication.
C15_Witness ==
  \E p \in Procs :
    /\ proc[p].pc = "done"
    /\ proc[p].requests = << "csrf" >>
    /\ proc[p].result = AuthFailed
    /\ proc[p].execs = 0

\* C16: a launch that got no authentication ticket (its requests ended with
\* that for the CSRF token or that for the ticket, and no URL was formed)
\* returned the message of the failed authentication and started no
\* launcher; every URL formed carries a ticket; and that message, the
\* not-found message and the invalid place id message are three different
\* texts, none of them the message of success.
C16_AuthFailedMessage ==
  /\ Cardinality({NotFound, InvalidPlace, AuthFailed, Launched}) = 4
  /\ \A p \in Procs :
       /\ (proc[p].pc = "done" /\ proc[p].requests # << >> /\ proc[p].launchURL = << >>)
            => /\ proc[p].result = AuthFailed
               /\ proc[p].requests \in {<< "csrf" >>, << "csrf", "ticket" >>}
               /\ proc[p].execs = 0
       /\ proc[p].result = AuthFailed
            => (proc[p].requests # << >> /\ proc[p].launchURL = << >>)
       /\ proc[p].launchURL # << >> => proc[p].launchURL[1].gameinfo # ""

\* A launch whose request for the ticket was answered without a ticket
\* returned the message of the failed authentication.
C16_Witness ==
  \E p \in Procs :
    /\ proc[p].pc = "done"
    /\ proc[p].requests = << "csrf", "ticket" >>
    /\ proc[p].result = AuthFailed
    /\ proc[p].launchURL = << >>

\* C17: a launch whose server id holds a link code is not aborted by the
\* resolution of the access code; with an access code found its URL is that
\* of a private server (place id, access code, link code), whatever joinVIP
\* was; with none found its URL carries the server id as it was given.
C17_LinkCodeResolution ==
  \A p \in Procs :
    (proc[p].pc = "done" /\ proc[p].linkCode # "")
    => /\ proc[p].result = Launched
       /\ proc[p].launchURL # << >>
       /\ IF proc[p].accessCode # NullText
          THEN /\ proc[p].launchURL[1].request = "RequestPrivateGame"
               /\ proc[p].launchURL[1].accessCode = proc[p].accessCode
               /\ proc[p].launchURL[1].linkCode = proc[p].linkCode
               /\ proc[p].launchURL[1].placeId = proc[p].placeId
          ELSE proc[p].launchURL[1].gameId = proc[p].serverToJoin

\* C18: the URL of a launch has one of three shapes: with joinVIP that of a
\* private server, with the place id, the access code and the link code;
\* else with followUser that of following a user, with the id as user id
\* and no place id; else that of a game, with the place id, and with the
\* server id as game id and the request named RequestGameJob exactly when
\* the server id is not empty.
C18_ThreeShapes ==
  \A p \in Procs :
    proc[p].launchURL # << >> =>
      LET url == proc[p].launchURL[1]
          L == proc[p]
      IN /\ url.request \in {"RequestPrivateGame", "RequestFollowUser",
                             "RequestGame", "RequestGameJob"}
         /\ url.request = "RequestPrivateGame" <=> L.joinVIP
         /\ url.request = "RequestFollowUser" <=> (~L.joinVIP /\ L.followUser)
         /\ url.request = "RequestGameJob"
              <=> (~L.joinVIP /\ ~L.followUser /\ L.serverToJoin # "")
         /\ url.request = "RequestPrivateGame"
              => /\ url.placeId = L.placeId /\ url.userId = Null
                 /\ url.accessCode = L.accessCode /\ url.linkCode = L.linkCode
                 /\ url.gameId = ""
         /\ url.request = "RequestFollowUser"
              => /\ url.userId = L.placeId /\ url.placeId = Null
                 /\ url.accessCode = "" /\ url.linkCode = "" /\ url.gameId = ""
         /\ url.request \in {"RequestGame", "RequestGameJob"}
              => /\ url.placeId = L.placeId /\ url.userId = Null
                 /\ url.accessCode = "" /\ url.linkCode = ""
                 /\ url.gameId = L.serverToJoin

\* A launch called with both joinVIP and followUser and a server id has the
\* URL of a private server.
C18_Witness ==
  \E p \in Procs :
    /\ proc[p].pc = "done" /\ proc[p].result = Launched
    /\ proc[p].joinVIP /\ proc[p].followUser /\ proc[p].serverToJoin = "srv1"
    /\ proc[p].launchURL[1].request = "RequestPrivateGame"
    /\ proc[p].launchURL[1].accessCode = "srv1"

\* C19: a launch that handed its URL to the launcher has returned the
\* message of success, and the end of the launcher, failed or not, changes
\* neither that result nor anything of the registry or the file.
C19_FireAndForget ==
  /\ [](\A p \in Procs :
          proc[p].launcher # ""
          => /\ proc[p].pc = "done" /\ proc[p].result = Launched
             /\ proc[p].execs = 1
             /\ proc[p].launchURL[1].gameinfo # "")
  /\ [][\A p \in Procs :
          (proc[p].launcher = "running" /\ proc'[p].launcher \in {"ended", "failed"})
          => /\ proc'[p].result = proc[p].result
             /\ proc'[p].pc = proc[p].pc
             /\ UNCHANGED << accounts, objs, nextServers, lastUsedPlaceId,
                             pending, disk >>]_vars

\* The launcher started by a launch failed, and the launch still has the
\* message of success.
C19_Witness ==
  \E p \in Procs :
    /\ proc[p].launcher = "failed"
    /\ proc[p].pc = "done" /\ proc[p].result = Launched

\* C20: an account has no time of last use as long as no launch of it has
\* succeeded.  Every record of alice starts without one, so while at most
\* one launch has been called, a record of alice with a time of last use is
\* the account of a launch that returned the message of success.
C20_LastUsedAfterSuccess ==
  \A o \in DOMAIN objs :
    (objs[o].username = "alice" /\ hist.launches <= 1 /\ objs[o].lastUsed # NoTime)
    => \E p \in Procs : /\ proc[p].account = o
                        /\ proc[p].pc = "done"
                        /\ proc[p].result = Launched

\* C21: once a launch has returned the message of success and the file
\* holds its place id as the last place, the file also holds the time of
\* last use the launch gave the account.
C21_LastUsedInFile ==
  \A p \in Procs :
    (proc[p].pc = "done" /\ proc[p].result = Launched
       /\ proc[p].accountName \in DOMAIN accounts
       /\ accounts[proc[p].accountName] = proc[p].account
       /\ proc[p].accountName \in DOMAIN disk.accounts
       /\ disk.lastUsedPlaceId = proc[p].placeId)
    => disk.accounts[proc[p].accountName].lastUsed = objs[proc[p].account].lastUsed

\* C22: a step of a launch changes no record but that of its own account
\* and no next server but that of its own name; the next server it took was
\* the one set for its name, and the tracker id in its URL is that of its
\* account.
C22_OtherAccountsUntouched ==
  /\ [][\A p \in Procs :
          (proc'[p] # proc[p] /\ proc'[p].pc # "idle")
          => /\ \A o \in DOMAIN objs :
                  o # proc'[p].account => (o \in DOMAIN objs' /\ objs'[o] = objs[o])
             /\ \A k \in DOMAIN nextServers :
                  k # proc'[p].accountName
                  => (k \in DOMAIN nextServers' /\ nextServers'[k] = nextServers[k])
             /\ \A k \in DOMAIN nextServers' : k \in DOMAIN nextServers
             /\ (Called(p) /\ proc'[p].consumed # 0)
                  => /\ proc'[p].consumed = hist.ovSer[proc'[p].accountName]
                     /\ proc'[p].serverToJoin = nextServers[proc'[p].accountName].jobId]_vars
  /\ [](\A p \in Procs :
          proc[p].launchURL # << >>
          => proc[p].launchURL[1].browsertrackerid = objs[proc[p].account].browserTrackerId)

\* Launches of alice and of bob ran together from the second file: bob's
\* took the next server set for bob, alice's found none and generated the
\* tracker id of alice; both launched, each with the tracker id of its own
\* account, and bob's is the one the file had.
C22_Witness ==
  \E p, q \in Procs :
    /\ proc[p].pc = "done" /\ proc[p].result = Launched /\ proc[p].accountName = "alice"
    /\ proc[q].pc = "done" /\ proc[q].result = Launched /\ proc[q].accountName = "bob"
    /\ proc[p].jobId = "" /\ proc[q].jobId = "" /\ proc[p].placeId = proc[q].placeId
    /\ proc[p].generated /\ proc[p].consumed = 0 /\ proc[p].serverToJoin = ""
    /\ proc[q].consumed # 0 /\ proc[q].serverToJoin = "srv1" /\ ~proc[q].generated
    /\ proc[q].launchURL[1].browsertrackerid = StoredBob.browserTrackerId
    /\ proc[p].launchURL[1].browsertrackerid # proc[q].launchURL[1].browsertrackerid

\* The step is a call of `op`, noted with its arguments and what it returned.
CallOf(op) == hist'.ops # hist.ops /\ hist'.call.op = op

\* C23: setNextServerForAccount for a name with no account returns false and
\* leaves the next servers as they were; for an account it returns true, the
\* account's entry is the place id and server id given, and every other
\* entry is as before.
C23_SetNextServer ==
  [][CallOf("setNextServerForAccount")
     => LET k == hist'.call.accountName
        IN IF k \notin DOMAIN accounts
           THEN hist'.call.ret = "false" /\ nextServers' = nextServers
           ELSE /\ hist'.call.ret = "true"
                /\ DOMAIN nextServers' = DOMAIN nextServers \cup {k}
                /\ nextServers'[k].placeId = hist'.call.args[1]
                /\ nextServers'[k].jobId = hist'.call.args[2]
                /\ \A j \in DOMAIN nextServers : j # k => nextServers'[j] = nextServers[j]]_vars

\* C24: deleteAccount for a name with no account returns false, writes
\* nothing and changes nothing; for an account it returns true, the account
\* is gone, every other record is as before, and a snapshot without the
\* account is written.
C24_Delete ==
  [][CallOf("deleteAccount")
     => LET k == hist'.call.accountName
        IN IF k \notin DOMAIN accounts
           THEN /\ hist'.call.ret = "false"
                /\ pending' = pending
                /\ accounts' = accounts /\ objs' = objs
                /\ nextServers' = nextServers /\ lastUsedPlaceId' = lastUsedPlaceId
           ELSE /\ hist'.call.ret = "true"
                /\ DOMAIN accounts' = DOMAIN accounts \ {k}
                /\ \A j \in DOMAIN accounts' : objs'[accounts'[j]] = objs[accounts[j]]
                /\ \E w \in pending' \ pending :
                     DOMAIN w.data.accounts = DOMAIN accounts \ {k}]_vars

\* C25: addAccount never throws; it returns the key under which the account
\* with the given cookie is stored, and the write of a snapshot holding that
\* key is awaited before it returns.
C25_AddNeverRejects ==
  [][CallOf("addAccount")
     => /\ ~hist'.call.threw
        /\ hist'.call.ret \in DOMAIN accounts'
        /\ objs'[accounts'[hist'.call.ret]].securityToken = hist'.call.args[1]
        /\ \E w \in pending' \ pending :
             w.awaited /\ hist'.call.ret \in DOMAIN w.data.accounts]_vars

\* C26: initialize from a file in the legacy format loads every account of
\* the file with its fields, and leaves the next servers empty and the last
\* place id null.
C26_LegacyLoads ==
  [][(phase = "constructed" /\ phase' = "ready" /\ disk.fmt = "legacy")
     => /\ DOMAIN accounts' = DOMAIN disk.accounts
        /\ \A k \in DOMAIN disk.accounts :
             LET a == objs'[accounts'[k]]
                 d == disk.accounts[k]
             IN /\ a.username = d.username /\ a.userId = d.userId
                /\ a.securityToken = d.securityToken /\ a.password = d.password
                /\ a.addedAt = d.addedAt /\ a.lastUsed = d.lastUsed
                /\ a.browserTrackerId = d.browserTrackerId
        /\ \A k, j \in DOMAIN accounts' : accounts'[k] = accounts'[j] => k = j
        /\ nextServers' = EmptyMap
        /\ lastUsedPlaceId' = Null]_vars

\* The registry just loaded from the legacy file: alice and bob, bob with
\* the tracker id the file has.
C26_Witness ==
  /\ phase = "ready" /\ hist.ops = 0 /\ disk = LegacyFile
  /\ DOMAIN accounts = {"alice", "bob"}
  /\ objs[accounts["bob"]].browserTrackerId = StoredBob.browserTrackerId
  /\ objs[accounts["alice"]].securityToken = "cookie1"
  /\ nextServers = EmptyMap /\ lastUsedPlaceId = Null

\* C27: with no file, or a file that cannot be read or parsed, initialize
\* still runs to its end, writes nothing, and leaves the registry with no
\* account, no next server and no last place id.
C27_NoFileStartsEmpty ==
  /\ [](phase = "constructed" => ENABLED Initialize)
  /\ [][(phase = "constructed" /\ phase' = "ready" /\ disk.fmt \notin {"wrapped", "legacy"})
        => /\ accounts' = EmptyMap
           /\ DOMAIN objs' = {ProtoRef}
           /\ nextServers' = EmptyMap
           /\ lastUsedPlaceId' = Null
           /\ pending' = {} /\ disk' = disk]_vars

\* initialize has run where the file holds the cut-off text of two accounts:
\* the registry is empty and the file is as it was.
C27_Witness ==
  /\ phase = "ready" /\ hist.ops = 0 /\ disk = CorruptFile
  /\ disk.accounts # EmptyMap
  /\ accounts = EmptyMap /\ nextServers = EmptyMap /\ lastUsedPlaceId = Null
  /\ pending = {}

\* C30: setAccountAlias and setAccountDescription for a name with no account
\* return false, getAccountAlias and getAccountDescription return '', and
\* none of them writes or changes anything; for an account the setters
\* return true and change that field of that record and nothing else.
C30_AliasAndDescription ==
  [][/\ \A f \in {"alias", "description"} :
          CallOf(IF f = "alias" THEN "setAccountAlias" ELSE "setAccountDescription")
          => LET k == hist'.call.accountName
             IN IF k \notin DOMAIN accounts
                THEN /\ hist'.call.ret = "false"
                     /\ pending' = pending /\ objs' = objs /\ accounts' = accounts
                ELSE /\ hist'.call.ret = "true"
                     /\ accounts' = accounts
                     /\ objs' = [objs EXCEPT ![accounts[k]][f] = hist'.call.args[1]]
                     /\ nextServers' = nextServers
                     /\ lastUsedPlaceId' = lastUsedPlaceId
     /\ (CallOf("getAccountAlias") \/ CallOf("getAccountDescription"))
          => /\ hist'.call.accountName \notin DOMAIN accounts => hist'.call.ret = ""
             /\ pending' = pending /\ objs' = objs /\ accounts' = accounts]_vars

\* C28: getAuthTicket makes the handshake request first and the ticket
\* request second, only with a token and with that token in its header;
\* without a token it returns null with no ticket request made; a ticket
\* response without the ticket header gives null.
C28_HandshakeThenTicket ==
  \A p \in Procs :
    LET L == proc[p]
    IN /\ L.requests # << >> => L.requests[1] = "csrf"
       /\ \A i \in 1 .. Len(L.requests) : L.requests[i] = "ticket" => i = 2
       /\ Len(L.requests) = 2
            => /\ L.csrfToken # ""
               /\ L.csrfToken = L.csrfResponse.header
               /\ L.tokenSent = L.csrfToken
       /\ (L.pc = "done" /\ L.csrfToken = "")
            => L.authTicket = "" /\ L.requests = << "csrf" >> /\ L.tokenSent = ""
       /\ (L.pc = "done" /\ Len(L.requests) = 2
             /\ (L.ticketResponse.failed \/ L.ticketResponse.header = ""))
            => L.authTicket = ""
       /\ (L.pc = "done" /\ L.authTicket # "")
            => L.requests = << "csrf", "ticket" >> /\ L.authTicket = L.ticketResponse.header

\* Two calls of getAuthTicket have returned: one got no token and made one
\* request, the other sent the token it got and was given no ticket header.
C28_Witness ==
  \E p, q \in Procs :
    /\ proc[p].pc = "done" /\ proc[p].requests = << "csrf" >>
    /\ proc[p].csrfResponse = Answer(403, "") /\ proc[p].authTicket = ""
    /\ proc[q].pc = "done" /\ proc[q].requests = << "csrf", "ticket" >>
    /\ proc[q].tokenSent = "csrf" /\ proc[q].ticketResponse = Answer(200, "")
    /\ proc[q].authTicket = ""

\* C29: getCSRFToken gives a token exactly for a 403 response that has the
\* x-csrf-token header, and then that header; for a response without the
\* header, a response with another status and a throw of the fetch it gives
\* null, and the caller goes on (to its own return of null).
C29_TokenOnlyFrom403 ==
  \A p \in Procs :
    LET L == proc[p]
        r == L.csrfResponse
    IN (L.pc \in {"ticket", "done"} /\ L.requests # << >>)
       => /\ L.csrfToken # ""
               <=> (~r.failed /\ r.status = 403 /\ r.header # "")
          /\ L.csrfToken # "" => L.csrfToken = r.header
          /\ L.csrfToken = "" => L.pc = "done" /\ L.authTicket = ""

\* The handshake of one call failed in transport and that of another was
\* answered 200 with the header: both calls returned null; neither asked for
\* a ticket.
C29_Witness ==
  \E p, q \in Procs :
    /\ proc[p].pc = "done" /\ proc[p].csrfResponse = FetchFailed
    /\ proc[q].pc = "done" /\ proc[q].csrfResponse = Answer(200, "csrf")
    /\ proc[p].csrfToken = "" /\ proc[q].csrfToken = ""
    /\ proc[p].requests = << "csrf" >> /\ proc[q].requests = << "csrf" >>

\* C36: the next server a launch took is out of the map, and the snapshot
\* without it was written (or its write failed) before the first remote
\* request; no later step of the launch puts it back, so after the failed
\* authentication the account has no next server but one set since.
C36_ConsumedNotRestored ==
  /\ [](\A p \in Procs :
          proc[p].consumed # 0
          => /\ proc[p].accountName \in DOMAIN nextServers
                  => hist.ovSer[proc[p].accountName] # proc[p].consumed
             /\ proc[p].requests # << >> => (proc[p].writes >= 1 /\ proc[p].w = 0)
             /\ (proc[p].pc = "done" /\ proc[p].result = AuthFailed /\ hist.ops = 1)
                  => proc[p].accountName \notin DOMAIN nextServers)
  /\ [][\A p \in Procs :
          (proc[p].pc = "saveServer" /\ proc'[p].pc # "saveServer")
          => (disk' = disk \/ proc[p].accountName \notin DOMAIN disk'.nextServers)]_vars

\* The only operation was a launch of alice that took the next server of
\* the file and was refused the ticket: neither the map nor the file has a
\* next server for alice.
C36_Witness ==
  \E p \in Procs :
    /\ proc[p].pc = "done" /\ proc[p].result = AuthFailed /\ hist.ops = 1
    /\ proc[p].accountName = "alice" /\ proc[p].consumed # 0
    /\ proc[p].serverToJoin = "srv1"
    /\ proc[p].requests = << "csrf", "ticket" >>
    /\ "alice" \notin DOMAIN nextServers
    /\ "alice" \notin DOMAIN disk.nextServers /\ "alice" \in DOMAIN disk.accounts
    /\ pending = {}

\* C37: exec is called at most once in a launch, only with a URL that holds
\* the ticket obtained by the ticket request; a launch that returned a
\* failure called it never, one that returned success called it once.
C37_LauncherOnceAfterTicket ==
  \A p \in Procs :
    LET L == proc[p]
    IN /\ L.execs <= 1
       /\ L.execs = 1
            => /\ L.pc = "done" /\ L.result = Launched
               /\ Len(L.requests) >= 2 /\ L.requests[2] = "ticket"
               /\ L.launchURL # << >>
               /\ L.launchURL[1].gameinfo \in AuthTickets \ {""}
       /\ (L.pc = "done" /\ L.result # Launched)
            => L.execs = 0 /\ L.launcher = "" /\ L.launchURL = << >>
       /\ (L.pc = "done" /\ L.result = Launched) => L.execs = 1
       /\ L.pc \notin {"idle", "done"} => L.execs = 0

\* Two launches were made: one was refused the ticket and never called
\* exec, the other returned success after one call of exec with the ticket
\* in the URL.
C37_Witness ==
  \E p, q \in Procs :
    /\ proc[p].pc = "done" /\ proc[p].result = Launched /\ proc[p].execs = 1
    /\ proc[p].launchURL[1].gameinfo = "ticket" /\ proc[p].launcher = "running"
    /\ proc[q].pc = "done" /\ proc[q].result = AuthFailed /\ proc[q].execs = 0
    /\ proc[q].requests = << "csrf", "ticket" >>

\* C38: the remote requests of a launch are a prefix of handshake, ticket,
\* handshake, page; the last two are made only for a server id (given or
\* taken from the next server) with a link code, and only with a ticket; a
\* launch that succeeded with a server id without one made exactly the
\* first two.
C38_RequestOrder ==
  \A p \in Procs :
    LET L == proc[p]
        all == << "csrf", "ticket", "csrf", "page" >>
    IN /\ Len(L.requests) <= 4
       /\ \A i \in 1 .. Len(L.requests) : L.requests[i] = all[i]
       /\ Len(L.requests) >= 3
            => /\ IncludesLinkCode(L.serverToJoin)
               /\ L.pc # "done" => L.authTicket # ""
               /\ L.pc = "done" => L.result = Launched
       /\ (L.pc = "done" /\ L.result = Launched /\ ~IncludesLinkCode(L.serverToJoin))
            => L.requests = << "csrf", "ticket" >>
       /\ (L.pc = "done" /\ L.result = Launched /\ IncludesLinkCode(L.serverToJoin))
            => Len(L.requests) >= 3

\* A launch with no job id took a next server that has a link code, was
\* given the ticket and made the four requests.
C38_Witness ==
  \E p \in Procs :
    /\ proc[p].pc = "done" /\ proc[p].result = Launched
    /\ proc[p].jobId = "" /\ proc[p].consumed # 0
    /\ proc[p].serverToJoin = "privateServerLinkCode=vip1"
    /\ proc[p].requests = << "csrf", "ticket", "csrf", "page" >>
    /\ proc[p].launchURL[1].request = "RequestPrivateGame"

\* C39: the step in which a launch passes the validation of the place id
\* stores the id as the last used place and starts the awaited write of a
\* snapshot that has it; no other step of a launch changes the last used
\* place (not the return of a failed validation, not the return of a failed
\* authentication); the write has ended before the first remote request.
C39_LastPlaceBeforeAuth ==
  /\ [][\A p \in Procs :
          (proc'[p] # proc[p] /\ proc'[p].pc # "idle")
          => IF proc'[p].pc = "savePlace"
             THEN /\ lastUsedPlaceId' = proc'[p].placeId
                  /\ \E w \in pending' :
                       /\ w.id = proc'[p].w /\ w.awaited
                       /\ w.data.lastUsedPlaceId = proc'[p].placeId
             ELSE lastUsedPlaceId' = lastUsedPlaceId]_vars
  /\ [](\A p \in Procs :
          /\ proc[p].requests # << >> => (proc[p].writes >= 1 /\ proc[p].w = 0)
          /\ (proc[p].pc = "done" /\ proc[p].result = AuthFailed /\ hist.ops = 1)
               => lastUsedPlaceId = proc[p].placeId)

\* The only operation was a launch of alice for place "7" that was refused
\* the ticket: memory and file have "7" as the last used place, which the
\* file did not have before.
C39_Witness ==
  \E p \in Procs :
    /\ proc[p].pc = "done" /\ proc[p].result = AuthFailed /\ hist.ops = 1
    /\ proc[p].placeId = Str(<< "7" >>)
    /\ lastUsedPlaceId = proc[p].placeId
    /\ disk.lastUsedPlaceId = proc[p].placeId
    /\ DOMAIN disk.accounts = {"alice"}
    /\ pending = {}

\* The pieces of cs between the occurrences of sep (computed by halves).
RECURSIVE Split(_, _)
Split(cs, sep) ==
  IF cs = << >> THEN << << >> >>
  ELSE IF Len(cs) = 1
  THEN IF cs[1] = sep THEN << << >>, << >> >> ELSE << cs >>
  ELSE LET l == Split(SubSeq(cs, 1, Len(cs) \div 2), sep)
           r == Split(SubSeq(cs, (Len(cs) \div 2) + 1, Len(cs)), sep)
       IN SubSeq(l, 1, Len(l) - 1) \o << l[Len(l)] \o r[1] >> \o SubSeq(r, 2, Len(r))

\* The sequences of ss, one after the other.
RECURSIVE Flatten(_)
Flatten(ss) ==
  IF ss = << >> THEN << >>
  ELSE IF Len(ss) = 1 THEN ss[1]
  ELSE Flatten(SubSeq(ss, 1, Len(ss) \div 2))
       \o Flatten(SubSeq(ss, (Len(ss) \div 2) + 1, Len(ss)))

\* The text whose escapes are replaced by the characters they stand for.
Unescape(cs) ==
  LET ps == Split(cs, "%")
  IN ps[1] \o Flatten([i \in 1 .. (Len(ps) - 1) |->
                         << CHOOSE c \in DOMAIN PercentCode :
                              PercentCode[c] = << "%" >> \o SubSeq(ps[i + 1], 1, 2) >>
                         \o SubSeq(ps[i + 1], 3, Len(ps[i + 1]))])

\* C32: the text formatLaunchURL returns is ten pieces joined by `+`: the
\* scheme marker, the launch mode, the ticket, the launch time, the place
\* launcher URL percent-encoded (no character of it but unreserved ones and
\* escapes, and decoding gives the URL back), the tracker id, the two
\* locales, the channel and the launch experience; the same four values
\* give the same text.
C32_LaunchURLFormat ==
  /\ \A p \in Procs :
       proc[p].formatted # << >>
       => LET a == proc[p].formatArgs
              part == Split(proc[p].formatted, "+")
              key == << "p", "l", "a", "c", "e", "l", "a", "u", "n", "c", "h", "e", "r", "u",
                 "r", "l", ":" >>
              enc == SubSeq(part[5], Len(key) + 1, Len(part[5]))
          IN /\ Len(part) = 10
             /\ part[1] = << "r", "o", "b", "l", "o", "x", "-", "p", "l", "a", "y", "e", "r", ":",
                 "1" >>
             /\ part[2] = << "l", "a", "u", "n", "c", "h", "m", "o", "d", "e", ":", "p", "l", "a",
                 "y" >>
             /\ part[3] = << "g", "a", "m", "e", "i", "n", "f", "o", ":" >> \o a[2]
             /\ part[4] = << "l", "a", "u", "n", "c", "h", "t", "i", "m", "e", ":" >> \o ToDigits(a[4])
             /\ SubSeq(part[5], 1, Len(key)) = key
             /\ \A i \in 1 .. Len(enc) : enc[i] \in Unreserved \cup {"%"}
             /\ Unescape(enc) = a[1]
             /\ part[6] = << "b", "r", "o", "w", "s", "e", "r", "t", "r", "a", "c", "k", "e", "r",
                 "i", "d", ":" >> \o a[3]
             /\ part[7] = << "r", "o", "b", "l", "o", "x", "L", "o", "c", "a", "l", "e", ":", "e",
                 "n", "_", "u", "s" >>
             /\ part[8] = << "g", "a", "m", "e", "L", "o", "c", "a", "l", "e", ":", "e", "n", "_",
                 "u", "s" >>
             /\ part[9] = << "c", "h", "a", "n", "n", "e", "l", ":" >>
             /\ part[10] = << "L", "a", "u", "n", "c", "h", "E", "x", "p", ":", "I", "n", "A", "p",
                 "p" >>
  /\ \A p, q \in Procs :
       proc[p].formatArgs = proc[q].formatArgs => proc[p].formatted = proc[q].formatted

\* Two calls with the same values (the join URL with a space, a plus and a
\* percent sign in it, bob's tracker id) returned the same text.
C32_Witness ==
  /\ proc[1].formatted # << >> /\ proc[1].formatted = proc[2].formatted
  /\ proc[1].formatArgs[1] = JoinUrl
  /\ proc[1].formatArgs[3] = StoredBob.browserTrackerId
  /\ Len(proc[1].formatted) > Len(JoinUrl)

\* C34: every tracker id an account has is twelve decimal digits.
C34_TwelveDigits ==
  \A o \in DOMAIN objs :
    objs[o].browserTrackerId # NoTracker
    => /\ Len(objs[o].browserTrackerId) = 12
       /\ \A i \in 1 .. 12 : objs[o].browserTrackerId[i] \in Digits

\* alice was given the tracker id of the largest draw and bob that of the
\* draw 0.
C34_Witness ==
  /\ {"alice", "bob"} \subseteq DOMAIN accounts
  /\ objs[accounts["alice"]].browserTrackerId
       = << "1", "7", "3", "1", "2", "5", "8", "8", "0", "0", "0", "0" >>
  /\ objs[accounts["bob"]].browserTrackerId
       = << "1", "0", "0", "0", "0", "0", "1", "0", "0", "0", "0", "0" >>


\* C31: listAccounts returns the accounts in the order in which their keys
\* were first inserted, whatever the keys are (keys of digits included) and
\* after any adds and deletes.
C31_InsertionOrder ==
  [][CallOf("listAccounts")
     => hist'.call.list = [i \in DOMAIN hist.keys |-> accounts[hist.keys[i]]]]_vars


\* C35: whenever the last write of the accounts file in flight has ended and
\* none has failed, the file holds the registry as it is (accounts, next
\* servers, last used place): a write of an older snapshot never lands after
\* a newer one.
C35_FileIsRegistry ==
  [][(pending # {} /\ pending' = {} /\ ~hist'.failed)
     => disk' = dataToSave(accounts', objs', lastUsedPlaceId', nextServers')]_vars


\* C33: when a password is configured, a request for any path but /health
\* that carries the password in neither parameter is answered 401 by the
\* middleware, no handler runs, and registry, file, writes and launches stay
\* as they are; a request for /health is served whatever password it has.
C33_PasswordGate ==
  [][hist'.ops # hist.ops
     => LET c == hist'.call
        IN /\ (/\ hist.apiPassword # ""
               /\ c.args[1] # "/health"
               /\ c.args[2] # hist.apiPassword
               /\ c.args[3] # hist.apiPassword)
              => /\ c.op = "authMiddleware"
                 /\ c.ret = Unauthorized
                 /\ UNCHANGED << accounts, objs, nextServers, lastUsedPlaceId, disk,
                                 pending, proc >>
                 /\ hist' = [hist EXCEPT !.ops = @ + 1, !.call = c]
           /\ c.args[1] = "/health" => c.op = "health" /\ c.ret = "200 ok"]_vars

\* With the password "hunter2" configured, a request for /SetServer with a
\* wrong password was turned away after a request for /health was served
\* without one.
C33_Witness ==
  /\ hist.apiPassword = "hunter2"
  /\ hist.ops = 2
  /\ hist.call.op = "authMiddleware"
  /\ hist.call.args = << "/SetServer", "wrong", Undefined >>
  /\ hist.call.accountName = "alice"
  /\ hist.call.ret = Unauthorized

====
